---- MODULE Spec2Model ----
(***************************************************************************)
(* Verification model of mintUpdate: Classes.py (Update, UpdateTracker,    *)
(* FlatpakUpdate, KernelVersion), flatpak-update-worker.py,                *)
(* flatpakUpdater.py, mintupdate-cli.py and automatic_upgrades.py.         *)
(*                                                                         *)
(* UpdateTracker: the JSON-backed staleness tracker.  One invocation is    *)
(* the life of one UpdateTracker object: the constructor loads             *)
(* updates.json, update() is called for the updates found, notify()        *)
(* decides whether to nag, record() writes the file back.                  *)
(*                                                                         *)
(* Dates.  The code keeps dates as "%Y.%m.%d" strings and compares them as *)
(* strings; the format is fixed-width and zero-padded, so the string       *)
(* order is the calendar order.  A date is modelled by its day ordinal     *)
(* (days since the epoch, 1970-01-01 = 0) and date subtraction by integer  *)
(* subtraction.                                                            *)
(***************************************************************************)
EXTENDS Integers, Sequences, FiniteSets, TLC

\* ------------------------------------------------------------------ bounds
MaxDay == 2
MaxCalls == 2
MaxPackages == 3
MaxOps == 3
MaxComponents == 5

\* ------------------------------------------------------------ value spaces
Procs == {1, 2}
Names == {"a", "b"}
Types == {"security", "package"}
Dates == 0..MaxDay
NoDate == -1

VARIABLES
    now,                    \* the calendar date datetime.date.today() returns
    file,                   \* ~/.linuxmint/mintupdate/updates.json
    settings,               \* the com.linuxmint.updates keys the tracker reads
    history_log,            \* /var/log/apt/history.log
    history_log_gz,         \* /var/log/apt/history.log*gz, as zcat prints them
    pc,                     \* per invocation: where its tracker object is
    test_mode,              \* self.test_mode
    today,                  \* self.today
    security_only,          \* self.security_only
    tracked_updates,        \* self.tracked_updates
    refreshed_update_names, \* self.refreshed_update_names
    max_days,               \* self.max_days
    oldest_since_date,      \* self.oldest_since_date
    active,                 \* self.active
    loaded,                 \* history: self.tracked_updates as __init__ left it
    source,                 \* history: the file __init__ read
    notify_ret,             \* history: what notify() returned in this invocation
    last_true,              \* history: the latest True of notify() (see NoTrue)
    dropped,                \* history: the names the latest record() dropped
    persisted,              \* history: the dates the latest record() wrote
    upd,                    \* an Update object (the aggregation of packages)
    packages,               \* history: the packages it was built from, in order
    alias,                  \* history: the source_name argument of Update()
    stdout,                 \* what Update.serialize() printed
    parsed,                 \* the Update object parse() filled from that record
    worker,                 \* where the flatpak worker is with its fetch task
    ops,                    \* the operations of the transaction still to process
    updates,                \* self.updates of the flatpak worker
    discovered,             \* history: the operations processed, in order
    sent,                   \* the JSON document the worker sent to the updater
    received,               \* the objects the updater made of it with from_json
    compared,               \* two KernelVersion objects, to be compared
    args,                   \* mintupdate-cli: the parsed command line
    check,                  \* mintupdate-cli: check.updates of APTCheck
    blacklist_file,         \* /etc/mintupdate.blacklist
    result,                 \* mintupdate-cli: what main() listed or upgraded
    argv,                   \* flatpakUpdater: the refs on the worker's command line
    proc,                   \* flatpakUpdater: self.proc
    helper,                 \* the flatpak-update-worker.py process it started
    in_pipe,                \* self.in_pipe: the stdin of that process
    out_pipe,               \* self.out_pipe: the stdout of that process
    call,                   \* history: how the calls on the updater ended
    enabled_flag,           \* /var/lib/linuxmint/mintupdate-automatic-upgrades-enabled
    POWER_CONNECT_FILE,     \* /sys/class/power_supply/AC/online
    OPTIONS_FILE,           \* /etc/mintupdate-automatic-upgrades.conf
    PKLA_TARGET,            \* the shutdown blocker in 90-mandatory.d
    automatic               \* automatic_upgrades.py: where main() is, what it returned

tracker_vars == <<now, file, settings, history_log, history_log_gz, pc, test_mode,
          today, security_only, tracked_updates, refreshed_update_names,
          max_days, oldest_since_date, active, loaded, source, notify_ret,
          last_true, dropped, persisted>>

update_vars == <<upd, packages, alias, stdout, parsed>>

flatpak_vars == <<worker, ops, updates, discovered, sent, received>>

kernel_vars == <<compared>>

cli_vars == <<args, check, blacklist_file, result>>

updater_vars == <<argv, proc, helper, in_pipe, out_pipe, call>>

automatic_vars == <<enabled_flag, POWER_CONNECT_FILE, OPTIONS_FILE, PKLA_TARGET, automatic>>

vars == <<tracker_vars, update_vars, flatpak_vars, kernel_vars, cli_vars, updater_vars,
          automatic_vars>>

other_than_tracker ==
    <<update_vars, flatpak_vars, kernel_vars, cli_vars, updater_vars, automatic_vars>>
other_than_update ==
    <<tracker_vars, flatpak_vars, kernel_vars, cli_vars, updater_vars, automatic_vars>>
other_than_flatpak ==
    <<tracker_vars, update_vars, kernel_vars, cli_vars, updater_vars, automatic_vars>>
other_than_kernel ==
    <<tracker_vars, update_vars, flatpak_vars, cli_vars, updater_vars, automatic_vars>>
other_than_cli ==
    <<tracker_vars, update_vars, flatpak_vars, kernel_vars, updater_vars, automatic_vars>>
other_than_updater ==
    <<tracker_vars, update_vars, flatpak_vars, kernel_vars, cli_vars, automatic_vars>>
other_than_automatic ==
    <<tracker_vars, update_vars, flatpak_vars, kernel_vars, cli_vars, updater_vars>>

env == <<settings, history_log, history_log_gz>>

\* ---------------------------------------------------------------- helpers
Max(a, b) == IF a >= b THEN a ELSE b
Min(a, b) == IF a <= b THEN a ELSE b
Range(s) == {s[i] : i \in DOMAIN s}
Count(s, x) == Cardinality({i \in DOMAIN s : s[i] = x})

NoUpdates == [n \in {} |-> [type |-> "package", since |-> 0, days |-> 1]]

\* a tracker document: the dict json.load returns and json.dump writes
Doc(v, c, n, h, u) ==
    [version |-> v, checked |-> c, notified |-> n, has_updates |-> h, updates |-> u]

NoDoc == Doc(0, 0, 0, FALSE, NoUpdates)

tracker_version == 1

\* the dict the except branch of _initialize_tracker builds
FreshTracker(t) == Doc(tracker_version, t, t, TRUE, NoUpdates)

\* history values.  last_true: the date notify() last returned True on
\* outside test mode (at) and the start date of that run (run); it is
\* forgotten when that run could not write the file, and when a test fixture
\* replaces the file.
NoTrue == [at |-> NoDate, run |-> NoDate]

\* persisted: the `checked` and `notified` dates of the latest completed
\* record(); forgotten when a test fixture replaces the file.
NothingPersisted == [checked |-> NoDate, notified |-> NoDate]

Missing == [kind |-> "missing", doc |-> NoDoc]
Empty == [kind |-> "empty", doc |-> NoDoc]
Partial == [kind |-> "partial", doc |-> NoDoc]
Json(d) == [kind |-> "json", doc |-> d]

\* ================================================================= Update
\* Text.  Every string of the Update class whose content the code inspects
\* or joins (names, versions, archives, labels, descriptions) is a sequence
\* of tokens; a token is a run of characters that none of the tests and
\* conversions below splits.  String concatenation is \o, "" is << >>.
Str(t) == <<t>>
EmptyStr == << >>
None == <<"<None>">>
Unset == <<"<unset attribute>">>

startswith(s, prefix) == s # << >> /\ s[1] = prefix
endswith(s, suffix) == s # << >> /\ s[Len(s)] = suffix
contains(s, keyword) == keyword \in Range(s)

\* the tokens of free text that the wire format treats specially: a line
\* break, a non-ASCII letter, the five characters "&amp;", and three hashes
LF == "<LF>"
EAcute == "<e-acute>"
AmpEntity == "&amp;"
Hashes == "###"

\* ---------------------------------------------------------- apt packages
Origin(origin, site, archive, label, component) ==
    [origin |-> origin, site |-> site, archive |-> archive, label |-> label,
     component |-> component]

UbuntuUpdates ==
    Origin(Str("Ubuntu"), Str("archive.ubuntu.com"), <<"focal", "-updates">>,
           Str("Ubuntu"), Str("main"))
UbuntuSecurity ==
    Origin(Str("Ubuntu"), Str("security.ubuntu.com"), <<"focal", "-security">>,
           Str("Ubuntu"), Str("main"))
DebianSecurity ==
    Origin(Str("Debian"), Str("security.debian.org"), <<"bookworm">>,
           <<"Debian", "-Security">>, Str("main"))
MintRomeo ==
    Origin(Str("linuxmint"), Str("packages.linuxmint.com"), <<"vera">>,
           Str("linuxmint"), Str("romeo"))
MintMain ==
    Origin(Str("linuxmint"), Str("packages.linuxmint.com"), <<"vera">>,
           Str("linuxmint"), Str("main"))
OtherSite ==
    Origin(<<"LP-PPA", "-team">>, Str("ppa.launchpad.net"), <<"focal">>,
           Str("PPA"), Str("main"))

\* package.candidate.origins
OriginLists ==
    { << >>, <<UbuntuUpdates>>, <<UbuntuSecurity>>, <<DebianSecurity>>,
      <<MintRomeo>>, <<MintMain, OtherSite>>, <<MintRomeo, UbuntuSecurity>>,
      <<UbuntuSecurity, MintRomeo>> }

\* an apt package with the attributes the class reads: name, installed
\* (its version, or None), and of the candidate: version, source_name,
\* source_version, size, section, origins, raw_description, description
Package(name, source_name, source_version, size, section, origins, raw, long) ==
    [name |-> name, installed |-> Str("1.0"), version |-> Str("2.0"),
     source_name |-> source_name, source_version |-> source_version,
     size |-> size, section |-> section, origins |-> origins,
     raw_description |-> raw, description |-> long]

\* the upgradable packages of the cache; a package is known by its name
Cache ==
    { Package(<<"foo">>, Str("foo"), Str("2.0"), 1, Str("utils"), <<UbuntuUpdates>>,
              <<"foo tool">>, <<"foo tool", LF, "long">>),
      Package(<<"foo", "-data">>, Str("foo"), Str("2.0"), 2, Str("utils"), <<UbuntuSecurity>>,
              <<"foo data">>, <<"data", EAcute>>),
      Package(<<"foo", "-doc">>, Str("foo"), Str("2.0"), 3, Str("doc"), << >>,
              <<"foo manual">>, <<"R", AmpEntity, "D">>),
      Package(<<"lib", "foo", "1">>, Str("foo"), Str("2.0"), 1, Str("libs"), <<MintRomeo>>,
              <<"foo library">>, <<"library">>),
      Package(<<"lib", "foo", "-dev">>, Str("foo"), Str("2.1"), 2, Str("libdevel"),
              <<UbuntuUpdates>>,
              <<"foo headers">>, <<"headers", Hashes>>),
      Package(<<"foo", "-locale-", "en">>, Str("foo"), Str("2.0"), 1, Str("localization"),
              <<MintMain, OtherSite>>,
              <<"foo english">>, <<"english">>),
      Package(<<"firefox">>, Str("firefox"), Str("2.0"), 3, Str("web"), <<UbuntuUpdates>>,
              <<"browser">>, <<"web browser">>),
      Package(<<"linux-headers", "-5.15.0-generic">>, Str("linux-hwe"), Str("2.0"), 2,
              Str("admin"), <<UbuntuUpdates>>,
              <<"kernel headers">>, <<"headers for 5.15">>),
      Package(<<"linux-image", "-5.15.0-generic">>, Str("linux-signed"), Str("2.0"), 3,
              Str("kernel"), <<UbuntuSecurity>>,
              <<"kernel image">>, <<"signed kernel">>) }

\* the packages Update() may be created from: any package of the cache, not
\* installed yet, installed in an older version or in the candidate version,
\* offered by any list of origins, in section kernel or in its own
FirstPackages ==
    { [pkg EXCEPT !.installed = installed, !.origins = origins] :
        pkg \in Cache, installed \in {None, Str("1.0"), Str("2.0")},
        origins \in OriginLists }

\* the source_name argument: absent, or the name the alias table gives
Aliases == {None, Str("foo"), Str("firefox"), <<"foo", "-data">>}

\* -------------------------------------------------------- Update.__init__
Browsers == {Str("firefox"), Str("thunderbird"), Str("chromium")}
KernelSources == {Str("linux"), Str("linux-kernel"), Str("linux-signed"), Str("linux-meta")}

SourcePackage(pkg) == pkg.source_name \o <<"=">> \o pkg.source_version

\* (mutation of OriginLoop: a security origin anywhere in the list is looked
\* for before an unstable one)
OriginLoop_SecurityFirst(origins, i, source_name, st) ==
    IF \E k \in DOMAIN origins :
          \/ origins[k].origin = Str("Ubuntu") /\ contains(origins[k].archive, "-security")
          \/ origins[k].origin = Str("Debian") /\ contains(origins[k].label, "-Security")
    THEN [st EXCEPT !.type = Str("security")]
    ELSE IF \E k \in DOMAIN origins :
          origins[k].origin = Str("linuxmint") /\ origins[k].component = Str("romeo")
    THEN [st EXCEPT !.type = Str("unstable")]
    ELSE st

\* the loop over package.candidate.origins; st holds self.type, self.origin,
\* self.site and self.archive, and the loop ends at the first break
RECURSIVE OriginLoop(_, _, _, _)
OriginLoop(origins, i, source_name, st) ==
    IF i > Len(origins) THEN st
    ELSE LET origin == origins[i]
             at == [st EXCEPT
                      !.origin = IF origin.origin = Str("Ubuntu") THEN Str("ubuntu")
                                 ELSE IF origin.origin = Str("Debian") THEN Str("debian")
                                 ELSE origin.origin,
                      !.site = origin.site,
                      !.archive = origin.archive]
         IN  IF origin.origin = Str("Ubuntu") /\ contains(origin.archive, "-security")
             THEN [at EXCEPT !.type = Str("security")]
             ELSE IF origin.origin = Str("Debian") /\ contains(origin.label, "-Security")
             THEN [at EXCEPT !.type = Str("security")]
             ELSE IF source_name \in Browsers
             THEN [at EXCEPT !.type = Str("security")]
             ELSE IF origin.origin = Str("linuxmint") /\ origin.component = Str("romeo")
             THEN [at EXCEPT !.type = Str("unstable")]
             ELSE OriginLoop(origins, i + 1, source_name, at)

\* (mutation of IsKernel: only the section is looked at)
IsKernel_SectionOnly(package, package_name, real_source_name) ==
    package.section = Str("kernel")

\* the test after the loop
IsKernel(package, package_name, real_source_name) ==
    \/ package.section = Str("kernel")
    \/ startswith(package_name, "linux-headers")
    \/ real_source_name \in KernelSources

\* the object Update(package, source_name=source_name) builds
Update__init__(package, source_name) ==
    LET new_version == package.version
        old_version == IF package.installed = None THEN EmptyStr ELSE package.installed
        real_source_name == package.source_name
        self_source_name == IF source_name # None THEN source_name ELSE real_source_name
        start == [type |-> Str("package"), origin |-> EmptyStr, site |-> Unset,
                  archive |-> EmptyStr]
        looped == OriginLoop(package.origins, 1, source_name, start)
        classified == IF new_version = old_version
                      THEN [type |-> Unset, origin |-> Unset, site |-> Unset,
                            archive |-> EmptyStr]
                      ELSE IF IsKernel(package, package.name, real_source_name)
                      THEN [looped EXCEPT !.type = Str("kernel")]
                      ELSE looped
    IN  [package_names |-> <<package.name>>,
         source_packages |-> {SourcePackage(package)},
         main_package_name |-> package.name,
         package_name |-> package.name,
         new_version |-> new_version,
         old_version |-> old_version,
         size |-> package.size,
         real_source_name |-> real_source_name,
         source_name |-> self_source_name,
         display_name |-> self_source_name,
         short_description |-> package.raw_description,
         description |-> package.description,
         archive |-> classified.archive,
         type |-> classified.type,
         origin |-> classified.origin,
         site |-> classified.site]

\* ------------------------------------------------------ Update.add_package
Suffixes == <<"-dev", "-dbg", "-common", "-core", "-data", "-doc", ":i386", ":amd64">>
Prefixes == <<"lib", "gir1.2">>
Keywords == <<"-locale-", "-l10n-", "-help-">>

\* (mutation of overwrite_main_package: the descriptions are left alone)
overwrite_main_package_NameOnly(self, pkg) ==
    [self EXCEPT !.main_package_name = pkg.name]

overwrite_main_package(self, pkg) ==
    [self EXCEPT !.description = pkg.description,
                 !.short_description = pkg.raw_description,
                 !.main_package_name = pkg.name]

\* one of the three loops reaches its overwrite_main_package(pkg); return
Replaces(main_package_name, pkg) ==
    \/ \E i \in DOMAIN Suffixes :
          endswith(main_package_name, Suffixes[i]) /\ ~endswith(pkg.name, Suffixes[i])
    \/ \E i \in DOMAIN Prefixes :
          startswith(main_package_name, Prefixes[i]) /\ ~startswith(pkg.name, Prefixes[i])
    \/ \E i \in DOMAIN Keywords :
          contains(main_package_name, Keywords[i]) /\ ~contains(pkg.name, Keywords[i])

\* (mutation of add_package: the size of the merged package is not added)
add_package_SizeKept(self, pkg) ==
    LET grown == [self EXCEPT
                    !.package_names = Append(@, pkg.name),
                    !.source_packages = @ \cup {SourcePackage(pkg)}]
    IN  IF pkg.name = grown.source_name THEN overwrite_main_package(grown, pkg)
        ELSE grown

\* (mutation of add_package: a merged package always becomes the main one)
add_package_AlwaysMain(self, pkg) ==
    overwrite_main_package(
        [self EXCEPT
            !.package_names = Append(@, pkg.name),
            !.source_packages = @ \cup {SourcePackage(pkg)},
            !.size = @ + pkg.size], pkg)

\* (mutation of add_package: the main package is named without being listed)
add_package_Unlisted(self, pkg) ==
    overwrite_main_package([self EXCEPT !.size = @ + pkg.size], pkg)

\* (mutation of add_package: a merged kernel package turns the update into
\* a kernel update)
add_package_Reclassifies(self, pkg) ==
    LET grown == [self EXCEPT
                    !.package_names = Append(@, pkg.name),
                    !.source_packages = @ \cup {SourcePackage(pkg)},
                    !.size = @ + pkg.size,
                    !.type = IF pkg.section = Str("kernel") THEN Str("kernel") ELSE @]
    IN  IF pkg.name = grown.source_name THEN overwrite_main_package(grown, pkg)
        ELSE grown

\* (mutation of add_package: the loop over the suffixes is skipped)
add_package_SuffixesSkipped(self, pkg) ==
    LET grown == [self EXCEPT
                    !.package_names = Append(@, pkg.name),
                    !.source_packages = @ \cup {SourcePackage(pkg)},
                    !.size = @ + pkg.size]
    IN  IF grown.main_package_name = None \/ pkg.name = grown.source_name
        THEN overwrite_main_package(grown, pkg)
        ELSE IF /\ grown.main_package_name # grown.source_name
                /\ \/ \E i \in DOMAIN Prefixes :
                        /\ startswith(grown.main_package_name, Prefixes[i])
                        /\ ~startswith(pkg.name, Prefixes[i])
                   \/ \E i \in DOMAIN Keywords :
                        /\ contains(grown.main_package_name, Keywords[i])
                        /\ ~contains(pkg.name, Keywords[i])
        THEN overwrite_main_package(grown, pkg)
        ELSE grown

add_package(self, pkg) ==
    LET grown == [self EXCEPT
                    !.package_names = Append(@, pkg.name),
                    !.source_packages = @ \cup {SourcePackage(pkg)},
                    !.size = @ + pkg.size]
    IN  IF grown.main_package_name = None \/ pkg.name = grown.source_name
        THEN overwrite_main_package(grown, pkg)
        ELSE IF grown.main_package_name # grown.source_name
                /\ Replaces(grown.main_package_name, pkg)
        THEN overwrite_main_package(grown, pkg)
        ELSE grown

\* -------------------------------------------------------- Update.serialize
Sentinel == "---EOL---"

DigitChars == <<"0", "1", "2", "3", "4", "5", "6", "7", "8", "9">>

\* "%s" % n for an int n >= 0
RECURSIVE IntToStr(_)
IntToStr(n) ==
    IF n < 10 THEN <<DigitChars[n + 1]>>
    ELSE IntToStr(n \div 10) \o <<DigitChars[(n % 10) + 1]>>

\* sep.join(list)
RECURSIVE join(_, _)
join(sep, list) ==
    IF list = << >> THEN EmptyStr
    ELSE IF Len(list) = 1 THEN list[1]
    ELSE list[1] \o <<sep>> \o join(sep, Tail(list))

\* the orders in which iterating a set of strings can yield its elements
Orders(S) == {q \in [1..Cardinality(S) -> S] : Range(q) = S}

\* str.encode("ascii", "xmlcharrefreplace"): a character outside ASCII
\* becomes its numeric character reference
xmlcharrefreplace(token) == IF token = EAcute THEN "&#233;" ELSE token

\* print() of a bytes object writes its repr: b'...', a line break inside
\* written as backslash n
bytes_repr(token) == IF token = LF THEN "\\n" ELSE token

RECURSIVE encode(_)
encode(s) ==
    IF s = << >> THEN << >> ELSE <<xmlcharrefreplace(Head(s))>> \o encode(Tail(s))

RECURSIVE repr(_)
repr(s) ==
    IF s = << >> THEN << >> ELSE <<bytes_repr(Head(s))>> \o repr(Tail(s))

\* html.unescape: a character reference becomes the character it names
unescape_token(token) ==
    IF token = "&#233;" THEN EAcute
    ELSE IF token = AmpEntity THEN "&"
    ELSE token

RECURSIVE unescape(_)
unescape(s) ==
    IF s = << >> THEN << >> ELSE <<unescape_token(Head(s))>> \o unescape(Tail(s))

HasAllAttributes(self) ==
    /\ self.type # Unset /\ self.origin # Unset /\ self.site # Unset

\* output_string for the order `order` of self.source_packages
output_string(self, order) ==
    <<Hashes>> \o self.display_name
    \o <<Hashes>> \o self.source_name
    \o <<Hashes>> \o self.real_source_name
    \o <<Hashes>> \o join(", ", order)
    \o <<Hashes>> \o self.main_package_name
    \o <<Hashes>> \o join(", ", self.package_names)
    \o <<Hashes>> \o self.new_version
    \o <<Hashes>> \o self.old_version
    \o <<Hashes>> \o IntToStr(self.size)
    \o <<Hashes>> \o self.type
    \o <<Hashes>> \o self.origin
    \o <<Hashes>> \o self.short_description
    \o <<Hashes>> \o self.description
    \o <<Hashes>> \o self.site
    \o <<Hashes>> \o self.archive
    \o <<Sentinel>>

\* what serialize() prints
serialize(self, order) ==
    <<"b'">> \o repr(encode(output_string(self, order))) \o <<"'">>

\* ------------------------------------------------------------ Update.parse
\* the reader of the records cuts the output at the sentinel and hands what
\* precedes it to Update(input_string=...)
RECURSIVE UpToSentinel(_)
UpToSentinel(out) ==
    IF out = << >> \/ Head(out) = Sentinel THEN << >>
    ELSE <<Head(out)>> \o UpToSentinel(Tail(out))

\* str.split(sep): the list of the pieces between the separators
RECURSIVE split(_, _, _)
split(s, sep, piece) ==
    IF s = << >> THEN <<piece>>
    ELSE IF Head(s) = sep THEN <<piece>> \o split(Tail(s), sep, EmptyStr)
    ELSE split(Tail(s), sep, Append(piece, Head(s)))

IsDigits(s) == s # << >> /\ \A i \in DOMAIN s : \E d \in DOMAIN DigitChars : DigitChars[d] = s[i]

\* int(s) for a string of digits
RECURSIVE StrToInt(_)
StrToInt(s) ==
    IF s = << >> THEN 0
    ELSE 10 * StrToInt(SubSeq(s, 1, Len(s) - 1))
         + ((CHOOSE d \in DOMAIN DigitChars : DigitChars[d] = s[Len(s)]) - 1)

NotParsed == [status |-> "none", values |-> << >>]

\* parse(input_string): the fields it assigns, or the exception it raises
\* when the tuple assignment does not find 15 values or int() no number
parse(input_string) ==
    LET values == Tail(split(unescape(input_string), Hashes, EmptyStr))
    IN  IF Len(values) # 15 \/ ~IsDigits(values[9])
        THEN [status |-> "ValueError", values |-> << >>]
        ELSE [status |-> "ok",
              values |->
                [display_name |-> values[1],
                 source_name |-> values[2],
                 real_source_name |-> values[3],
                 source_packages |-> split(values[4], ", ", EmptyStr),
                 main_package_name |-> values[5],
                 package_names |-> split(values[6], ", ", EmptyStr),
                 new_version |-> values[7],
                 old_version |-> values[8],
                 size |-> StrToInt(values[9]),
                 type |-> values[10],
                 origin |-> values[11],
                 short_description |-> values[12],
                 description |-> values[13],
                 site |-> values[14],
                 archive |-> values[15]]]

\* ------------------------------------------------- the aggregation pass
NoUpdate ==
    [package_names |-> << >>, source_packages |-> {}, main_package_name |-> None,
     package_name |-> None, new_version |-> EmptyStr, old_version |-> EmptyStr,
     size |-> 0, real_source_name |-> None, source_name |-> None,
     display_name |-> None, short_description |-> EmptyStr,
     description |-> EmptyStr, archive |-> EmptyStr, type |-> Unset,
     origin |-> Unset, site |-> Unset]

NotPrinted == << >>
AttributeError == <<"<AttributeError>">>

\* update = Update(package, source_name=source_name)
UpdateCreate(package, source_name) ==
    /\ packages = << >>
    /\ upd' = Update__init__(package, source_name)
    /\ packages' = <<package>>
    /\ alias' = source_name
    /\ UNCHANGED <<stdout, parsed>>
    /\ UNCHANGED other_than_update

\* update.add_package(pkg), for a package of the cache not folded in yet
AddPackage(pkg) ==
    /\ packages # << >>
    /\ Len(packages) < MaxPackages
    /\ stdout = NotPrinted
    /\ \A i \in DOMAIN packages : packages[i].name # pkg.name
    /\ upd' = add_package(upd, pkg)
    /\ packages' = Append(packages, pkg)
    /\ UNCHANGED <<alias, stdout, parsed>>
    /\ UNCHANGED other_than_update

\* update.serialize(); reading an attribute __init__ never assigned raises
Serialize(order) ==
    /\ packages # << >>
    /\ stdout = NotPrinted
    /\ stdout' = IF HasAllAttributes(upd) THEN serialize(upd, order) ELSE AttributeError
    /\ UNCHANGED <<upd, packages, alias, parsed>>
    /\ UNCHANGED other_than_update

\* Update(input_string=record) on the record cut out of the output
Parse ==
    /\ stdout # NotPrinted
    /\ stdout # AttributeError
    /\ parsed = NotParsed
    /\ parsed' = parse(UpToSentinel(stdout))
    /\ UNCHANGED <<upd, packages, alias, stdout>>
    /\ UNCHANGED other_than_update

InitUpdate ==
    /\ upd = NoUpdate
    /\ packages = << >>
    /\ alias = None
    /\ stdout = NotPrinted
    /\ parsed = NotParsed

\* ================================================================ Flatpak
\* ----------------------------------------------------- str, as Python has it
\* The text the flatpak worker, KernelVersion and mintupdate-cli compare is
\* a sequence of tokens.  No token below is a prefix of another, so the
\* order of two texts is the order of their first differing tokens, and
\* CodePoints lists the tokens in the order of their first characters
\* (ASCII: "*" < "-" < "." < "/" < digits < "=" < capitals < small letters).
CodePoints ==
    << "*", "-", ".", "/", "0", "1", "2", "3", "4", "5", "6", "7", "8", "9", "=",
       "Addon", "Codecs", "Dark", "Foo", "Link", "Locale", "Platform", "Plugin", "Theme",
       "app", "c", "firefox", "foo", "linux", "mintupdate", "org", "r", "z" >>

Ord(t) == CHOOSE i \in DOMAIN CodePoints : CodePoints[i] = t

\* a < b
RECURSIVE str_lt(_, _)
str_lt(a, b) ==
    IF b = << >> THEN FALSE
    ELSE IF a = << >> THEN TRUE
    ELSE IF Head(a) = Head(b) THEN str_lt(Tail(a), Tail(b))
    ELSE Ord(Head(a)) < Ord(Head(b))

\* s.startswith(prefix), prefix a text of any length
str_startswith(s, prefix) ==
    Len(prefix) <= Len(s) /\ SubSeq(s, 1, Len(prefix)) = prefix

\* ------------------------------------------------------------ Flatpak.Ref
\* Flatpak.Ref.format_ref(): kind/name/arch/branch
format_ref(ref) ==
    <<ref.kind, "/">> \o ref.name \o <<"/", ref.arch, "/", ref.branch>>

\* Flatpak.Ref.parse(text)
RefParse(text) ==
    LET parts == split(text, "/", EmptyStr)
    IN  [kind |-> parts[1][1], name |-> parts[2],
         arch |-> parts[3][1], branch |-> parts[4][1]]

\* len(name.split("."))
Segments(name) == Len(split(name, ".", EmptyStr))

\* --------------------------------------- what the collaborators hand over
\* op.get_metadata(): the groups of the key file, the value of runtime in
\* [Runtime] and of built-extensions in [Build], None where the key is absent
KeyFile(groups, runtime, built_extensions) ==
    [groups |-> groups, runtime |-> runtime, built_extensions |-> built_extensions]

\* an installed ref with its appdata
InstalledRef(commit, version, name, summary, origin) ==
    [commit |-> commit, appdata_version |-> version, appdata_name |-> name,
     appdata_summary |-> summary, origin |-> origin]

\* an appstream entry of the installer
PkgInfo(name, summary, description, version, homepage) ==
    [display_name |-> name, summary |-> summary, description |-> description,
     version |-> version, homepage |-> homepage]

NoRef == [absent |-> "ref"]
\* op.get_metadata() returned None
NoKeyFile == [absent |-> "metadata"]
NoPkgInfo == [absent |-> "pkginfo"]

\* one operation of the transaction.  installed says what get_installed_ref
\* does for the ref: it returns installed_ref, raises NOT_INSTALLED, or
\* raises another GLib.Error
Operation(ref, type, size, commit, metadata, installed, installed_ref, pkginfo) ==
    [ref |-> ref, operation_type |-> type, download_size |-> size, commit |-> commit,
     metadata |-> metadata, installed |-> installed, installed_ref |-> installed_ref,
     pkginfo |-> pkginfo]

\* the operations a transaction is made of: the app org.app, which declares
\* the extension org.app.Plugin, its runtimes org.app.Locale and
\* org.app.Plugin.Foo, the app org.appLink, which declares org.Theme, the
\* runtime org.Platform, which names itself as its runtime and declares
\* org.Theme and org.app.Plugin, the runtime org.Theme.Dark, org.Addon, whose
\* installed ref cannot be queried, and org.Codecs, which has no metadata.
\* A commit is 12 characters here.
Operations ==
    LET RefText(kind, name) == <<kind, "/">> \o name \o <<"/", "x86_64", "/", "stable">>
        org_app == <<"org", ".", "app">>
        org_Theme == <<"org", ".", "Theme">>
        Commit(c) == <<c, "0", "1", "2", "3", "4", "5", "6", "7", "8", "9", "a">>
        AppMetadata(extension) ==
            KeyFile(<<Str("Application"), Str("Context"), <<"Extension ">> \o extension>>,
                    None, None)
        ExtensionMetadata ==
            KeyFile(<<Str("Runtime"), Str("ExtensionOf")>>,
                    org_app \o <<"/", "x86_64", "/", "stable">>, None)
    IN  { Operation(RefText("app", org_app), "update", 4, Commit("c2"),
                    AppMetadata(org_app \o <<".", "Plugin">>), "installed",
                    InstalledRef(Commit("c1"), Str("1.0"), Str("App"), Str("An app"), Str("flathub")),
                    PkgInfo(Str("App"), Str("An app"), Str("It does things"), Str("1.1"),
                            Str("https://app.org"))),
          Operation(RefText("runtime", org_app \o <<".", "Locale">>), "update", 1, Commit("c4"),
                    ExtensionMetadata, "installed",
                    InstalledRef(Commit("c3"), EmptyStr, EmptyStr, EmptyStr, Str("flathub")),
                    NoPkgInfo),
          Operation(RefText("runtime", org_app \o <<".", "Plugin", ".", "Foo">>), "install", 2,
                    Commit("c5"), ExtensionMetadata, "not_installed", NoRef, NoPkgInfo),
          Operation(RefText("app", org_app \o <<"Link">>), "update", 3, Commit("c7"),
                    AppMetadata(org_Theme), "installed",
                    InstalledRef(Commit("c6"), Str("2.0"), Str("Link"), Str("A companion"), Str("flathub")),
                    PkgInfo(Str("Link"), Str("A companion"), EmptyStr, Str("2.0"), None)),
          Operation(RefText("runtime", <<"org", ".", "Platform">>), "update", 5, Commit("c9"),
                    KeyFile(<<Str("Runtime"), <<"Extension ">> \o org_Theme,
                              <<"Extension ">> \o org_app \o <<".", "Plugin">>>>,
                            <<"org", ".", "Platform", "/", "x86_64", "/", "stable">>, None),
                    "installed",
                    InstalledRef(Commit("c8"), EmptyStr, EmptyStr, EmptyStr, Str("flathub")),
                    NoPkgInfo),
          Operation(RefText("runtime", org_Theme \o <<".", "Dark">>), "install", 1, Commit("c10"),
                    KeyFile(<<Str("Runtime")>>, None, <<org_Theme \o <<".", "Dark">>>>),
                    "not_installed", NoRef, NoPkgInfo),
          Operation(RefText("runtime", <<"org", ".", "Addon">>), "update", 2, Commit("c12"),
                    KeyFile(<<Str("Runtime")>>, None, None), "error", NoRef, NoPkgInfo),
          Operation(RefText("runtime", <<"org", ".", "Codecs">>), "install", 2, Commit("c13"),
                    NoKeyFile, "not_installed", NoRef, NoPkgInfo) }

\* the transactions: up to MaxOps distinct operations in any order
Transactions ==
    { t \in UNION { [1..n -> Operations] : n \in 0..MaxOps } :
        \A i, j \in DOMAIN t : i # j => t[i] # t[j] }

\* ------------------------------------------------- FlatpakUpdate.__init__
\* str.capitalize() of a remote name
capitalize(s) == IF s = Str("flathub") THEN Str("Flathub") ELSE s

\* s[:n]
slice_to(s, n) == SubSeq(s, 1, IF Len(s) < n THEN Len(s) ELSE n)

\* (mutation of set_versions: the commits are not cut)
set_versions_WholeCommits(op, installed_ref, pkginfo) ==
    LET old_commit == IF installed_ref # NoRef THEN installed_ref.commit ELSE EmptyStr
        iref_version == IF installed_ref # NoRef THEN installed_ref.appdata_version ELSE EmptyStr
        appstream_version == IF pkginfo # NoPkgInfo THEN pkginfo.version ELSE EmptyStr
        new_commit == op.commit
    IN  IF iref_version # EmptyStr /\ appstream_version # EmptyStr
        THEN IF iref_version # appstream_version
             THEN <<iref_version, appstream_version>>
             ELSE << iref_version \o <<" (">> \o old_commit \o <<")">>,
                     appstream_version \o <<" (">> \o new_commit \o <<")">> >>
        ELSE <<old_commit, new_commit>>

\* _set_versions: <<old_version, new_version>>
set_versions(op, installed_ref, pkginfo) ==
    LET old_commit == IF installed_ref # NoRef THEN slice_to(installed_ref.commit, 10)
                      ELSE EmptyStr
        iref_version == IF installed_ref # NoRef THEN installed_ref.appdata_version ELSE EmptyStr
        appstream_version == IF pkginfo # NoPkgInfo THEN pkginfo.version ELSE EmptyStr
        new_commit == slice_to(op.commit, 10)
    IN  IF iref_version # EmptyStr /\ appstream_version # EmptyStr
        THEN IF iref_version # appstream_version
             THEN <<iref_version, appstream_version>>
             ELSE << iref_version \o <<" (">> \o old_commit \o <<")">>,
                     appstream_version \o <<" (">> \o new_commit \o <<")">> >>
        ELSE <<old_commit, new_commit>>

\* FlatpakUpdate(op, installer, ref, installed_ref, remote_ref, pkginfo).
\* remote_ref is not a parameter of _set_package_info, so the origin of a ref
\* without installed_ref is a NameError that the except branch logs: origin
\* keeps the "" of __init__.
FlatpakUpdate__init__(op, ref, installed_ref, pkginfo) ==
    LET flatpak_type == IF ref.kind = "app" THEN "app" ELSE "runtime"
        versions == set_versions(op, installed_ref, pkginfo)
        info ==
            IF pkginfo # NoPkgInfo
            THEN <<pkginfo.display_name, pkginfo.summary, pkginfo.description>>
            ELSE IF installed_ref # NoRef /\ flatpak_type # "runtime"
            THEN <<installed_ref.appdata_name, installed_ref.appdata_summary, EmptyStr>>
            ELSE <<ref.name, EmptyStr, EmptyStr>>
        runtime_text == info[3] = EmptyStr /\ flatpak_type = "runtime"
    IN  [class |-> "FlatpakUpdate",
         ref |-> ref,
         ref_name |-> ref.name,
         metadata |-> op.metadata,
         size |-> op.download_size,
         link |-> IF pkginfo # NoPkgInfo THEN pkginfo.homepage ELSE None,
         flatpak_type |-> flatpak_type,
         old_version |-> versions[1],
         new_version |-> versions[2],
         name |-> info[1],
         summary |-> IF runtime_text THEN Str("A Flatpak runtime package") ELSE info[2],
         description |-> IF runtime_text THEN Str("A Flatpak runtime package") ELSE info[3],
         real_source_name |-> ref.name,
         source_packages |-> << ref.name \o <<"=">> \o versions[2] >>,
         package_names |-> <<ref.name>>,
         sub_updates |-> << >>,
         origin |-> IF installed_ref # NoRef THEN capitalize(installed_ref.origin)
                    ELSE EmptyStr]

\* (mutation of FlatpakUpdate_add_package: the size of the child is not added)
FlatpakUpdate_add_package_SizeKept(self, update) ==
    [self EXCEPT !.sub_updates = Append(@, update),
                 !.package_names = Append(@, update.ref_name)]

\* FlatpakUpdate.add_package(update); update is a FlatpakUpdate, which has
\* ref_name and size
FlatpakUpdate_add_package(self, update) ==
    [self EXCEPT !.sub_updates = Append(@, update),
                 !.package_names = Append(@, update.ref_name),
                 !.size = @ + update.size]

\* ------------------------------------------------- the worker: the parents
\* is_base_package(update): the NAME starts with "app", or the runtime key of
\* [Runtime] names the ref itself; a missing key, or metadata that is None,
\* raises, which gives False
is_base_package(update) ==
    \/ str_startswith(update.ref_name, Str("app"))
    \/ /\ update.metadata # NoKeyFile
       /\ update.metadata.runtime # None
       /\ update.ref_name = RefParse(<<"runtime", "/">> \o update.metadata.runtime).name

\* group.replace("Extension ", "")
replace_Extension(group) == SelectSeq(group, LAMBDA t : t # "Extension ")

\* _parse_group_extensions(metadata): every group of the key file
parse_group_extensions(metadata) ==
    [i \in DOMAIN metadata.groups |-> replace_Extension(metadata.groups[i])]

\* _is_extension_for_parent(parent, update), for a parent that has metadata
is_extension_for_parent(parent, update) ==
    LET built_extensions ==
            IF parent.metadata.built_extensions # None
            THEN parent.metadata.built_extensions
            ELSE parse_group_extensions(parent.metadata)
    IN  \E i \in DOMAIN built_extensions :
            str_startswith(update.ref_name, built_extensions[i])

\* one iteration of add_to_parent_update: the parent takes the ref
\* ("claims"), the loop goes on ("passes"), or, the metadata of the parent
\* being None, kf.get_string_list raises inside the try and
\* metadata.get_groups() raises again in the except branch ("raises")
Iteration(maybe_parent, update) ==
    IF str_startswith(update.ref_name, maybe_parent.ref_name) THEN "claims"
    ELSE IF maybe_parent.metadata = NoKeyFile THEN "raises"
    ELSE IF is_extension_for_parent(maybe_parent, update) THEN "claims"
    ELSE "passes"

\* the test of one iteration of add_to_parent_update
ClaimedBy(maybe_parent, update) == Iteration(maybe_parent, update) = "claims"

\* (mutation of add_to_parent_update: every entry is tried for the prefix
\* before any entry is asked for its extensions)
add_to_parent_update_PrefixesFirst(self_updates, update) ==
    LET prefixing == {i \in DOMAIN self_updates :
                         str_startswith(update.ref_name, self_updates[i].ref_name)}
        declaring == {i \in DOMAIN self_updates :
                         /\ self_updates[i].metadata # NoKeyFile
                         /\ is_extension_for_parent(self_updates[i], update)}
        claiming == IF prefixing # {} THEN prefixing ELSE declaring
        first == CHOOSE i \in claiming : \A j \in claiming : i <= j
    IN  IF claiming = {}
        THEN [found |-> FALSE, raised |-> FALSE, self_updates |-> self_updates]
        ELSE [found |-> TRUE, raised |-> FALSE,
              self_updates |->
                  [self_updates EXCEPT ![first] = FlatpakUpdate_add_package(@, update)]]

\* add_to_parent_update(update): the loop ends at the first entry of
\* self.updates that does not pass; found is the value returned, raised says
\* that an exception left the function instead
add_to_parent_update(self_updates, update) ==
    LET ending == {i \in DOMAIN self_updates : Iteration(self_updates[i], update) # "passes"}
        first == CHOOSE i \in ending : \A j \in ending : i <= j
    IN  IF ending = {}
        THEN [found |-> FALSE, raised |-> FALSE, self_updates |-> self_updates]
        ELSE IF Iteration(self_updates[first], update) = "raises"
        THEN [found |-> FALSE, raised |-> TRUE, self_updates |-> self_updates]
        ELSE [found |-> TRUE, raised |-> FALSE,
              self_updates |->
                  [self_updates EXCEPT ![first] = FlatpakUpdate_add_package(@, update)]]

\* the two lines after the construction of the FlatpakUpdate, in
\* _process_update_operation and in _process_install_operation; an
\* exception of add_to_parent_update is caught by the except branch around
\* them, which warns: the ref is appended nowhere
Place(self_updates, update) ==
    LET added == add_to_parent_update(self_updates, update)
    IN  IF is_base_package(update) THEN Append(self_updates, update)
        ELSE IF added.raised THEN self_updates
        ELSE IF ~added.found THEN Append(self_updates, update)
        ELSE added.self_updates

\* ----------------------------------------------- the worker: the ordering
OpName(op) == RefParse(op.ref).name

\* list.sort is stable: an element goes behind the elements that do not
\* follow it.  ops.sort(key=functools.cmp_to_key(cmp_ref_name))
RECURSIVE sort_cmp_ref_name(_)
sort_cmp_ref_name(list) ==
    IF list = << >> THEN << >>
    ELSE LET x == list[Len(list)]
             rest == sort_cmp_ref_name(SubSeq(list, 1, Len(list) - 1))
             before == {i \in DOMAIN rest :
                           Segments(OpName(rest[i])) - Segments(OpName(x)) <= 0}
             n == Cardinality(before)
         IN  SubSeq(rest, 1, n) \o <<x>> \o SubSeq(rest, n + 1, Len(rest))

\* ops.sort(key=lambda op: Flatpak.Ref.parse(op.get_ref()).get_name())
RECURSIVE sort_ref_name(_)
sort_ref_name(list) ==
    IF list = << >> THEN << >>
    ELSE LET x == list[Len(list)]
             rest == sort_ref_name(SubSeq(list, 1, Len(list) - 1))
             before == {i \in DOMAIN rest : ~str_lt(OpName(x), OpName(rest[i]))}
             n == Cardinality(before)
         IN  SubSeq(rest, 1, n) \o <<x>> \o SubSeq(rest, n + 1, Len(rest))

\* the two sorts of _process_fetch_task, in the order of the code
SortedOperations(list) == sort_ref_name(sort_cmp_ref_name(list))

\* ------------------------------------------------------- the wire document
\* FlatpakUpdate.to_json(): a dict; the children are dicts too
RECURSIVE to_json(_)
to_json(self) ==
    [class |-> "dict",
     flatpak_type |-> self.flatpak_type,
     name |-> self.name,
     origin |-> self.origin,
     old_version |-> self.old_version,
     new_version |-> self.new_version,
     size |-> self.size,
     summary |-> self.summary,
     description |-> self.description,
     real_source_name |-> self.real_source_name,
     source_packages |-> self.source_packages,
     package_names |-> self.package_names,
     sub_updates |-> [i \in DOMAIN self.sub_updates |-> to_json(self.sub_updates[i])],
     link |-> self.link,
     metadata |-> self.metadata,
     ref |-> format_ref(self.ref)]

\* FlatpakUpdate.from_json(json_data): sub_updates is taken over as the list
\* of dicts it is in the document
from_json(json_data) ==
    [class |-> "FlatpakUpdate",
     flatpak_type |-> json_data.flatpak_type,
     ref |-> RefParse(json_data.ref),
     ref_name |-> RefParse(json_data.ref).name,
     name |-> json_data.name,
     origin |-> json_data.origin,
     old_version |-> json_data.old_version,
     new_version |-> json_data.new_version,
     size |-> json_data.size,
     summary |-> json_data.summary,
     description |-> json_data.description,
     real_source_name |-> json_data.real_source_name,
     source_packages |-> json_data.source_packages,
     package_names |-> json_data.package_names,
     sub_updates |-> json_data.sub_updates,
     link |-> json_data.link,
     metadata |-> json_data.metadata]


\* ------------------------------------------------------------ the actions
\* _process_fetch_task, its first part: the operations of the transaction
\* are sorted
ProcessFetchTask ==
    /\ worker = "fetched"
    /\ ops' = SortedOperations(ops)
    /\ worker' = "processing"
    /\ UNCHANGED <<updates, discovered, sent, received>>
    /\ UNCHANGED other_than_flatpak

\* _process_update_operation(op, ref), for the next operation of the loop.
\* When get_installed_ref raises an error other than NOT_INSTALLED,
\* installed_ref is never bound: the FlatpakUpdate(...) call raises
\* UnboundLocalError inside the try, the except branch warns, and the ref is
\* in no entry.
ProcessUpdateOperation ==
    /\ worker = "processing"
    /\ ops # << >>
    /\ Head(ops).operation_type = "update"
    /\ LET op == Head(ops)
           ref == RefParse(op.ref)
           installed_ref == IF op.installed = "installed" THEN op.installed_ref ELSE NoRef
       IN  updates' =
               IF op.installed = "error" THEN updates
               ELSE Place(updates, FlatpakUpdate__init__(op, ref, installed_ref, op.pkginfo))
    /\ ops' = Tail(ops)
    /\ discovered' = Append(discovered, Head(ops))
    /\ UNCHANGED <<worker, sent, received>>
    /\ UNCHANGED other_than_flatpak

\* _process_install_operation(op, ref), for the next operation of the loop
ProcessInstallOperation ==
    /\ worker = "processing"
    /\ ops # << >>
    /\ Head(ops).operation_type = "install"
    /\ LET op == Head(ops)
           ref == RefParse(op.ref)
       IN  updates' = Place(updates, FlatpakUpdate__init__(op, ref, NoRef, op.pkginfo))
    /\ ops' = Tail(ops)
    /\ discovered' = Append(discovered, Head(ops))
    /\ UNCHANGED <<worker, sent, received>>
    /\ UNCHANGED other_than_flatpak

\* _fetch_task_ready after _process_fetch_task: json.dumps(self.updates,
\* default=lambda o: o.to_json()) goes to the updater
SendToUpdater ==
    /\ worker = "processing"
    /\ ops = << >>
    /\ sent' = [i \in DOMAIN updates |-> to_json(updates[i])]
    /\ worker' = "sent"
    /\ UNCHANGED <<ops, updates, discovered, received>>
    /\ UNCHANGED other_than_flatpak

\* the updater: FlatpakUpdate.from_json(item) for each item of the document.
\* json_data["metadata"].encode() raises AttributeError for the null of an
\* entry without metadata; the updater catches JSONDecodeError only and
\* self.updates is not assigned.
FromJson ==
    /\ worker = "sent"
    /\ LET null == \E i \in DOMAIN sent : sent[i].metadata = NoKeyFile
       IN  /\ received' = IF null THEN received
                          ELSE [i \in DOMAIN sent |-> from_json(sent[i])]
           /\ worker' = IF null THEN "failed" ELSE "received"
    /\ UNCHANGED <<ops, updates, discovered, sent>>
    /\ UNCHANGED other_than_flatpak

\* no transaction
InitFlatpak ==
    /\ worker = "idle"
    /\ ops = << >>
    /\ updates = << >>
    /\ discovered = << >>
    /\ sent = << >>
    /\ received = << >>

\* ========================================================== KernelVersion
\* A version string is a sequence of characters here.
field_length == 3

\* "0" * n; the empty string for n <= 0
Zeros(n) == [i \in 1..n |-> "0"]

\* version.replace("-", ".")
replace_dash(version) == [i \in DOMAIN version |-> IF version[i] = "-" THEN "." ELSE version[i]]

\* x.startswith("rc")
startswith_rc(x) == Len(x) >= 2 /\ x[1] = "r" /\ x[2] = "c"

\* str.isnumeric() for ASCII text
isnumeric(element) == IsDigits(element)

\* x.lstrip("0")
RECURSIVE lstrip_zero(_)
lstrip_zero(x) ==
    IF x # << >> /\ Head(x) = "0" THEN lstrip_zero(Tail(x)) ELSE x

\* "".join(list)
RECURSIVE concat(_)
concat(list) == IF list = << >> THEN << >> ELSE Head(list) \o concat(Tail(list))

\* (mutation of Padded: the element is taken as it is)
Padded_NoZeros(element) == element

\* "0" * (field_length - len(element)) + element
Padded(element) == Zeros(field_length - Len(element)) \o element

\* (mutation of FillTo4: the loop stops at three fields)
RECURSIVE FillTo4_ThreeFields(_)
FillTo4_ThreeFields(version_id) ==
    IF Len(version_id) < 3 THEN FillTo4_ThreeFields(Append(version_id, Zeros(field_length)))
    ELSE version_id

\* while len(self.version_id) < 4: self.version_id.append("0" * field_length)
RECURSIVE FillTo4(_)
FillTo4(version_id) ==
    IF Len(version_id) < 4 THEN FillTo4(Append(version_id, Zeros(field_length)))
    ELSE version_id

\* x[: field_length - 2].lstrip("0") + x[field_length - 2 :]
Shortened(x) ==
    lstrip_zero(SubSeq(x, 1, Min(field_length - 2, Len(x))))
        \o SubSeq(x, field_length - 2 + 1, Len(x))

\* KernelVersion(version)
KernelVersion__init__(version) ==
    LET elements == split(replace_dash(version), ".", EmptyStr)
        rcs == {i \in DOMAIN elements : startswith_rc(elements[i])}
        suffix == IF rcs = {} THEN <<"z">>
                  ELSE elements[CHOOSE i \in rcs : \A j \in rcs : i <= j]
        numeric == SelectSeq(elements, isnumeric)
        filled == FillTo4([i \in DOMAIN numeric |-> Padded(numeric[i])])
        version_id ==
            IF Len(filled) = 4
            THEN Append(filled,
                        concat([i \in DOMAIN filled |-> Shortened(filled[i])]) \o suffix)
            ELSE IF Len(filled) > 4 /\ Len(filled[5]) = 6
            THEN [filled EXCEPT ![5] = @ \o suffix]
            ELSE filled
    IN  [version |-> version,
         version_id |-> version_id,
         series |-> SubSeq(version_id, 1, 3),
         shortseries |-> SubSeq(version_id, 1, 2)]

\* a < b for two lists of str, as Python compares lists
RECURSIVE list_lt(_, _)
list_lt(a, b) ==
    IF b = << >> THEN FALSE
    ELSE IF a = << >> THEN TRUE
    ELSE IF Head(a) = Head(b) THEN list_lt(Tail(a), Tail(b))
    ELSE str_lt(Head(a), Head(b))

\* the version strings: up to MaxComponents numbers 9 or 10, written
\* a.b.c-d.e, each with and without -rc1, and three without any number
RECURSIVE VersionText(_)
VersionText(numbers) ==
    IF Len(numbers) = 1 THEN numbers[1]
    ELSE VersionText(SubSeq(numbers, 1, Len(numbers) - 1))
            \o <<IF Len(numbers) = 4 THEN "-" ELSE ".">> \o numbers[Len(numbers)]

Releases ==
    { VersionText(numbers) :
        numbers \in UNION { [1..n -> { <<"9">>, <<"1", "0">> }] : n \in 1..MaxComponents } }

rc1 == <<"-", "r", "c", "1">>

\* the strings without numeric component: "", "rc1" and "lts"
Wordy == { << >>, <<"r", "c", "1">>, <<"l", "t", "s">> }

KernelVersions == Releases \cup { v \o rc1 : v \in Releases } \cup Wordy

NoKernel == [version |-> None]

\* KernelVersion(version) for the next of the two versions compared
KernelVersionCreate(version) ==
    /\ \E slot \in DOMAIN compared :
          /\ compared[slot] = NoKernel
          /\ \A other \in DOMAIN compared : other < slot => compared[other] # NoKernel
          /\ compared' = [compared EXCEPT ![slot] = KernelVersion__init__(version)]
    /\ UNCHANGED other_than_kernel

InitKernel == compared = <<NoKernel, NoKernel>>

\* ========================================================== mintupdate-cli
PRIORITY_UPDATES == << Str("mintupdate"), Str("mint-upgrade-info") >>


\* fnmatch.fnmatch(name, pat) for patterns of literal text and "*"
RECURSIVE fnmatch(_, _)
fnmatch(name, pat) ==
    IF pat = << >> THEN name = << >>
    ELSE IF Head(pat) = "*"
    THEN \/ fnmatch(name, Tail(pat))
         \/ name # << >> /\ fnmatch(Tail(name), pat)
    ELSE name # << >> /\ Head(name) = Head(pat) /\ fnmatch(Tail(name), Tail(pat))

\* (blacklist.split("=", 1) + [None])[:2]
split_blacklist(blacklist) ==
    LET at == {i \in DOMAIN blacklist : blacklist[i] = "="}
        first == CHOOSE i \in at : \A j \in at : i <= j
    IN  IF at = {} THEN <<blacklist, None>>
        ELSE <<SubSeq(blacklist, 1, first - 1), SubSeq(blacklist, first + 1, Len(blacklist))>>

\* is_blacklisted(blacklisted_packages, source_name, version)
is_blacklisted(blacklisted_packages, source_name, version) ==
    \E blacklist \in blacklisted_packages :
        LET bl == split_blacklist(blacklist)
        IN  fnmatch(source_name, bl[1]) /\ (bl[2] = None \/ bl[2] = version)

\* str.strip()
RECURSIVE strip(_)
strip(line) ==
    IF line # << >> /\ Head(line) \in {" ", LF} THEN strip(Tail(line))
    ELSE IF line # << >> /\ line[Len(line)] \in {" ", LF}
    THEN strip(SubSeq(line, 1, Len(line) - 1))
    ELSE line

NoFile == <<"<no such file>">>

\* load_blacklist(ignore_list)
load_blacklist(lines, ignore_list) ==
    LET from_file ==
            IF lines = NoFile THEN {}
            ELSE { strip(lines[i]) : i \in
                     { j \in DOMAIN lines :
                         /\ strip(lines[j]) # EmptyStr
                         /\ ~startswith(strip(lines[j]), "#") } }
    IN  IF ignore_list # None /\ ignore_list # EmptyStr
        THEN from_file \cup Range(split(ignore_list, ",", EmptyStr))
        ELSE from_file

\* sorted(check.updates.keys())
RECURSIVE sorted(_)
sorted(keys) ==
    IF keys = {} THEN << >>
    ELSE LET least == CHOOSE k \in keys : \A other \in keys : ~str_lt(other, k)
         IN  <<least>> \o sorted(keys \ {least})

\* the test of the loop of filter_updates
Selected(source_name, update, blacklisted, args_) ==
    \/ \E i \in DOMAIN PRIORITY_UPDATES : PRIORITY_UPDATES[i] = source_name
    \/ args_.only_kernel /\ update.type = "kernel"
    \/ args_.only_security /\ update.type = "security"
    \/ ~is_blacklisted(blacklisted, update.real_source_name, update.new_version)

\* filter_updates(check, blacklisted, args)
filter_updates(check_updates, blacklisted, args_) ==
    LET names == sorted(DOMAIN check_updates)
        chosen == SelectSeq(names, LAMBDA n : Selected(n, check_updates[n], blacklisted, args_))
    IN  [i \in DOMAIN chosen |-> check_updates[chosen[i]]]

\* the updates APTCheck finds
FoundUpdate(source_name, type, new_version, package_names) ==
    [source_name |-> source_name, real_source_name |-> source_name, type |-> type,
     new_version |-> new_version, package_names |-> package_names]

Found ==
    { FoundUpdate(Str("foo"), "package", Str("1.1"), <<Str("foo"), Str("foo-data")>>),
      FoundUpdate(Str("linux"), "kernel", Str("5.15.0-91.101"), <<Str("linux-image")>>),
      FoundUpdate(Str("firefox"), "security", Str("120.0"), <<Str("firefox")>>),
      FoundUpdate(Str("mintupdate"), "package", Str("6.0"), <<Str("mintupdate")>>) }

\* check.updates: the updates found, by source name
Findings ==
    { [ n \in {u.source_name : u \in some} |-> CHOOSE u \in some : u.source_name = n ] :
        some \in SUBSET Found }

\* args, as argparse leaves them; --only-kernel and --only-security exclude
\* each other
Args(command, only_kernel, only_security, ignore) ==
    [command |-> command, only_kernel |-> only_kernel, only_security |-> only_security,
     ignore |-> ignore]

CommandLines ==
    { Args(command, k, s, ignore) :
        command \in {"list", "upgrade", "help"}, k \in BOOLEAN, s \in BOOLEAN,
        ignore \in { None, <<"foo">>, <<"linux", ",", "firefox", "=", "120.0">> } }
    \ { Args(command, TRUE, TRUE, ignore) :
        command \in {"list", "upgrade", "help"},
        ignore \in { None, <<"foo">>, <<"linux", ",", "firefox", "=", "120.0">> } }

\* /etc/mintupdate.blacklist
BlacklistFiles ==
    { NoFile,
      << <<"#", " ", "kept", " ", "back", LF>>, <<LF>>, <<"linux", "*", LF>> >> }

NotRun == [status |-> "not run", updates |-> << >>, packages |-> << >>]

\* [pkg for update in updates for pkg in update.package_names]
RECURSIVE PackagesOf(_)
PackagesOf(list) ==
    IF list = << >> THEN << >> ELSE Head(list).package_names \o PackagesOf(Tail(list))

\* main(): the command is checked, the updates are found and filtered, and
\* they are listed or handed to apt-get install
Main ==
    /\ result = NotRun
    /\ result' =
          IF args.command \notin {"list", "upgrade"}
          THEN [status |-> "exit 1", updates |-> << >>, packages |-> << >>]
          ELSE LET updates_ == filter_updates(check, load_blacklist(blacklist_file, args.ignore), args)
               IN  IF args.command = "list"
                   THEN [status |-> "listed", updates |-> updates_, packages |-> << >>]
                   ELSE [status |-> "upgraded", updates |-> updates_,
                         packages |-> PackagesOf(updates_)]
    /\ UNCHANGED <<args, check, blacklist_file>>
    /\ UNCHANGED other_than_cli

\* mintupdate-cli is not run
InitCli ==
    /\ args = Args("list", FALSE, FALSE, None)
    /\ check = << >>
    /\ blacklist_file = NoFile
    /\ result = NotRun

\* ========================================================= FlatpakUpdater
\* flatpakUpdater.py: the updater starts flatpak-update-worker.py with
\* --update-packages and talks to it over its stdin and stdout.
\* ------------------------------------------------------------- the pipes
NoPipe == [fd |-> "None", lines |-> << >>]
OpenPipe == [fd |-> "open", lines |-> << >>]

NotCalled == [prepare_start_updates |-> "not called", confirm_start |-> "not called"]

\* [UPDATE_WORKER_PATH, "--update-packages"] + [update.ref.format_ref() ...]:
\* the refs of the command line
RefsOf(list) == [i \in DOMAIN list |-> format_ref(RefParse(list[i].ref))]

\* the worker is running: it has not left its main loop
HelperRuns == helper \in {"selecting", "reading", "error sent"}

\* prepare_start_updates(updates) up to self.out_pipe.readline(): inside
\* `with managed_subprocess(argv) as proc` the worker is started and the
\* updater waits for its first line
Popen(list) ==
    /\ call.prepare_start_updates = "not called"
    /\ argv' = RefsOf(list)
    /\ proc' = "Popen"
    /\ helper' = "selecting"
    /\ in_pipe' = OpenPipe
    /\ out_pipe' = OpenPipe
    /\ call' = [call EXCEPT !.prepare_start_updates = "readline"]
    /\ UNCHANGED other_than_updater

\* the worker: _start_task_ready prints "ready" and starts to read stdin
StartTaskReady ==
    /\ helper = "selecting"
    /\ out_pipe' = [out_pipe EXCEPT !.lines = Append(@, "ready")]
    /\ helper' = "reading"
    /\ UNCHANGED <<argv, proc, in_pipe, call>>
    /\ UNCHANGED other_than_updater

\* the worker: _start_updates_error prints task.error_message and stays in
\* the main loop
StartUpdatesError ==
    /\ helper = "selecting"
    /\ out_pipe' = [out_pipe EXCEPT !.lines = Append(@, "error message")]
    /\ helper' = "error sent"
    /\ UNCHANGED <<argv, proc, in_pipe, call>>
    /\ UNCHANGED other_than_updater

\* the worker ends before any task is ready: __init__ finds nothing
\* installed, prints "no-installed" and quits (printed = TRUE), or an
\* exception reaches `except Exception` of __main__, which warns on stderr
\* and exits (printed = FALSE)
WorkerExits(printed) ==
    /\ helper = "selecting"
    /\ out_pipe' = IF printed THEN [out_pipe EXCEPT !.lines = Append(@, "no-installed")]
                   ELSE out_pipe
    /\ helper' = "exited"
    /\ UNCHANGED <<argv, proc, in_pipe, call>>
    /\ UNCHANGED other_than_updater

\* the finally branch of managed_subprocess: proc.terminate(), then
\* proc.wait(timeout=5), then proc.kill() if the wait timed out; the worker
\* is gone either way
managed_subprocess__exit__(state) == "exited"

\* prepare_start_updates(updates) from the return of readline(): the line is
\* compared with "ready" (the empty string at end of file), and the with
\* block is left, by the raise or by its end
PrepareStartUpdatesReturns ==
    /\ call.prepare_start_updates = "readline"
    /\ out_pipe.lines # << >> \/ helper = "exited"
    /\ LET line == IF out_pipe.lines # << >> THEN Head(out_pipe.lines) ELSE ""
       IN  call' = [call EXCEPT !.prepare_start_updates =
                       IF line # "ready" THEN "RuntimeError" ELSE "returned"]
    /\ out_pipe' = [out_pipe EXCEPT !.lines = IF @ # << >> THEN Tail(@) ELSE @]
    /\ helper' = managed_subprocess__exit__(helper)
    /\ UNCHANGED <<argv, proc, in_pipe>>
    /\ UNCHANGED other_than_updater

\* confirm_start().  written: what write("confirm\n") and flush() do on the
\* pipe of a worker that has exited: BrokenPipeError, or the line stays in
\* the pipe buffer and readline() returns "" at end of file.  answer: what
\* task.confirm() of a running worker makes it print.  Every path but the
\* one of "yes" goes through terminate_helper(), which closes both pipes and
\* clears self.proc.
ConfirmStart(written, answer) ==
    /\ call.prepare_start_updates = "returned"
    /\ call.confirm_start = "not called"
    /\ LET line == IF ~HelperRuns THEN "" ELSE IF helper = "reading" THEN answer ELSE ""
           raised == ~HelperRuns /\ written = "BrokenPipeError"
           yes == ~raised /\ line = "yes"
       IN  /\ call' = [call EXCEPT !.confirm_start = IF yes THEN "True" ELSE "False"]
           /\ proc' = IF yes THEN proc ELSE "None"
           /\ helper' = IF yes THEN helper ELSE "exited"
           /\ in_pipe' = IF yes THEN [in_pipe EXCEPT !.lines = << >>]
                         ELSE [fd |-> "closed",
                               lines |-> IF raised \/ HelperRuns THEN << >> ELSE <<"confirm">>]
           /\ out_pipe' = IF yes THEN out_pipe ELSE [out_pipe EXCEPT !.fd = "closed"]
    /\ UNCHANGED argv
    /\ UNCHANGED other_than_updater

\* no worker has been started
InitUpdater ==
    /\ argv = << >>
    /\ proc = "None"
    /\ helper = "none"
    /\ in_pipe = NoPipe
    /\ out_pipe = NoPipe
    /\ call = NotCalled

\* ===================================================== automatic_upgrades
\* automatic_upgrades.py, run as root by a systemd timer
SUCCESS == 0
FAILURE == 1

NotStarted ==
    [at |-> "not started", arguments |-> << >>, upgraded |-> FALSE, result_code |-> SUCCESS,
     exit_code |-> SUCCESS, traceback |-> FALSE]

\* is_power_connected(): the content of the file; True without the file;
\* False when it cannot be read
is_power_connected ==
    IF POWER_CONNECT_FILE = NoFile THEN TRUE
    ELSE IF POWER_CONNECT_FILE = <<"<IOError>">> THEN FALSE
    ELSE strip(POWER_CONNECT_FILE) = <<"1">>

\* get_upgrade_arguments(): the lines of the options file that are neither
\* empty nor comments, stripped; none when the file is absent or unreadable
get_upgrade_arguments ==
    IF OPTIONS_FILE = NoFile \/ OPTIONS_FILE = <<"<IOError>">> THEN << >>
    ELSE LET kept == SelectSeq(OPTIONS_FILE,
                 LAMBDA line : strip(line) # EmptyStr /\ ~startswith(strip(line), "#"))
         IN  [i \in DOMAIN kept |-> strip(kept[i])]

\* create_symlink(): <<the value returned, PKLA_TARGET afterwards>>;
\* symlinked says whether os.symlink succeeds
create_symlink(symlinked) ==
    IF PKLA_TARGET = "symlink" THEN <<SUCCESS, PKLA_TARGET>>
    ELSE IF PKLA_TARGET # "absent" THEN <<FAILURE, PKLA_TARGET>>
    ELSE IF symlinked THEN <<SUCCESS, "symlink">>
    ELSE <<FAILURE, PKLA_TARGET>>

\* remove_symlink(): PKLA_TARGET afterwards; unlinked says whether os.unlink
\* succeeds; its exception is logged
remove_symlink(unlinked) ==
    IF PKLA_TARGET = "symlink" /\ unlinked THEN "absent" ELSE PKLA_TARGET

\* main() up to subprocess.run
AutomaticUpgradesBegin(symlinked) ==
    /\ automatic.at = "not started"
    /\ IF ~enabled_flag \/ ~is_power_connected
       THEN /\ automatic' = [automatic EXCEPT !.at = "exited", !.exit_code = FAILURE]
            /\ UNCHANGED PKLA_TARGET
       ELSE LET created == create_symlink(symlinked)
            IN  /\ PKLA_TARGET' = created[2]
                /\ automatic' =
                      IF created[1] = FAILURE
                      THEN [automatic EXCEPT !.at = "exited", !.exit_code = FAILURE]
                      ELSE [automatic EXCEPT !.at = "upgrading",
                                             !.arguments = get_upgrade_arguments]
    /\ UNCHANGED <<enabled_flag, POWER_CONNECT_FILE, OPTIONS_FILE>>
    /\ UNCHANGED other_than_automatic

\* run_upgrade_command(arguments).  ran is what subprocess.run and the
\* logging of its output do: they return; CalledProcessError with the
\* return code of the command, which is caught and returned; or an exception
\* that is not CalledProcessError (OSError when /bin/systemd-inhibit cannot
\* be executed, UnicodeDecodeError when the output is not UTF-8), which
\* nothing catches: main() ends with a traceback and exit code 1.
RunUpgradeCommand(ran, returncode) ==
    /\ automatic.at = "upgrading"
    /\ automatic' =
          IF ran \in {"OSError", "UnicodeDecodeError"}
          THEN [automatic EXCEPT !.at = "exited", !.upgraded = TRUE,
                                 !.exit_code = 1, !.traceback = TRUE]
          ELSE [automatic EXCEPT !.at = "ran", !.upgraded = TRUE,
                                 !.result_code = IF ran = "CalledProcessError"
                                                 THEN returncode ELSE SUCCESS]
    /\ UNCHANGED <<enabled_flag, POWER_CONNECT_FILE, OPTIONS_FILE, PKLA_TARGET>>
    /\ UNCHANGED other_than_automatic

\* main() after run_upgrade_command: remove_symlink() and return result_code
AutomaticUpgradesEnd(unlinked) ==
    /\ automatic.at = "ran"
    /\ PKLA_TARGET' = remove_symlink(unlinked)
    /\ automatic' = [automatic EXCEPT !.at = "exited", !.exit_code = automatic.result_code]
    /\ UNCHANGED <<enabled_flag, POWER_CONNECT_FILE, OPTIONS_FILE>>
    /\ UNCHANGED other_than_automatic

\* automatic upgrades are not enabled and have not run
InitAutomatic ==
    /\ enabled_flag = FALSE
    /\ POWER_CONNECT_FILE = NoFile
    /\ OPTIONS_FILE = NoFile
    /\ PKLA_TARGET = "absent"
    /\ automatic = NotStarted

\* ========================================================== UpdateTracker
\* ------------------------------------------------- UpdateTracker.__init__
\* (mutation of InvalidTrackerData: the notified date is not checked)
InvalidTrackerData_NotifiedUnchecked(d, t) ==
    d.version < tracker_version \/ d.checked > t

\* (mutation of InvalidTrackerData: only the version is checked)
InvalidTrackerData_VersionOnly(d, t) ==
    d.version < tracker_version

\* _validate_tracker_data raises "Invalid tracker data"
InvalidTrackerData(d, t) ==
    d.version < tracker_version \/ d.checked > t \/ d.notified > t

\* the try block of _initialize_tracker ends without an exception: open()
\* found the file, json.load parsed it, _validate_tracker_data did not raise
LoadSucceeds(f, t) ==
    f.kind = "json" /\ ~InvalidTrackerData(f.doc, t)

_initialize_tracker(f, t) ==
    IF LoadSucceeds(f, t) THEN f.doc ELSE FreshTracker(t)

\* self.active after _validate_tracker_data: cleared only on its last line,
\* which an exception never reaches
_validate_tracker_data(f, t) ==
    ~(LoadSucceeds(f, t) /\ f.doc.checked = t)

\* tm: the test fixture named by MINTUPDATE_TEST exists; fixture: its content,
\* which "cp" puts in place of updates.json before the load
Construct(p, tm, fixture) ==
    /\ UNCHANGED other_than_tracker
    /\ pc[p] = "idle"
    /\ LET f == IF tm THEN fixture ELSE file
           t == now
       IN  /\ file' = f
           /\ source' = [source EXCEPT ![p] = f]
           /\ today' = [today EXCEPT ![p] = t]
           /\ tracked_updates' = [tracked_updates EXCEPT ![p] = _initialize_tracker(f, t)]
           /\ loaded' = [loaded EXCEPT ![p] = _initialize_tracker(f, t)]
           /\ active' = [active EXCEPT ![p] = _validate_tracker_data(f, t)]
           /\ oldest_since_date' = [oldest_since_date EXCEPT ![p] = t]
    /\ test_mode' = [test_mode EXCEPT ![p] = tm]
    /\ security_only' = [security_only EXCEPT ![p] = settings.security_only]
    /\ refreshed_update_names' = [refreshed_update_names EXCEPT ![p] = << >>]
    /\ max_days' = [max_days EXCEPT ![p] = 0]
    /\ notify_ret' = [notify_ret EXCEPT ![p] = "none"]
    /\ pc' = [pc EXCEPT ![p] = "run"]
    /\ last_true' = IF tm THEN NoTrue ELSE last_true
    /\ dropped' = IF tm THEN {} ELSE dropped
    /\ persisted' = IF tm THEN NothingPersisted ELSE persisted
    /\ UNCHANGED <<now, env>>

\* --------------------------------------------------- UpdateTracker.update
\* (mutation of update_record: `days` grows on every call, whatever `checked`)
update_record_Unguarded(d, name, type, t) ==
    IF name \notin DOMAIN d.updates
    THEN [type |-> type, since |-> t, days |-> 1]
    ELSE [d.updates[name] EXCEPT !.type = type, !.days = @ + 1]

\* the record update() leaves under `name`
update_record(d, name, type, t) ==
    IF name \notin DOMAIN d.updates
    THEN [type |-> type, since |-> t, days |-> 1]
    ELSE [d.updates[name] EXCEPT
            !.type = type,
            !.days = IF t > d.checked THEN @ + 1 ELSE @]

\* (mutation of Qualifies: security-only mode is not looked at)
Qualifies_Always(type, so) == TRUE

\* is the record folded into max_days / oldest_since_date
Qualifies(type, so) == type \in {"security", "kernel"} \/ ~so

Update(p, name, type) ==
    /\ UNCHANGED other_than_tracker
    /\ pc[p] = "run"
    /\ Len(refreshed_update_names[p]) < MaxCalls
    /\ refreshed_update_names' =
          [refreshed_update_names EXCEPT ![p] = Append(@, name)]
    /\ IF ~tracked_updates[p].has_updates
       THEN \* self.tracked_updates["updates"] raises KeyError
            /\ pc' = [pc EXCEPT ![p] = "failed"]
            /\ UNCHANGED <<tracked_updates, max_days, oldest_since_date>>
       ELSE LET d == tracked_updates[p]
                r == update_record(d, name, type, today[p])
            IN  /\ tracked_updates' = [tracked_updates EXCEPT
                      ![p].updates = [n \in DOMAIN d.updates \cup {name} |->
                                         IF n = name THEN r ELSE d.updates[n]]]
                /\ IF Qualifies(type, security_only[p])
                   THEN /\ max_days' = [max_days EXCEPT ![p] = Max(@, r.days)]
                        /\ oldest_since_date' =
                              [oldest_since_date EXCEPT ![p] = Min(@, r.since)]
                   ELSE UNCHANGED <<max_days, oldest_since_date>>
                /\ UNCHANGED pc
    /\ UNCHANGED <<now, file, env, test_mode, today, security_only, active,
                   loaded, source, notify_ret, last_true, dropped, persisted>>

\* ------------------------------------------- the date helpers of notify()
\* both measure from datetime.date.today(), read when they are called,
\* not from self.today
get_days_since_date(date) ==
    IF date # NoDate THEN now - date ELSE 999

\* `timestamp` is epoch seconds; 0 is falsy
get_days_since_timestamp(timestamp) ==
    IF timestamp # 0 THEN now - (timestamp \div 86400) ELSE 999

\* ------------------------------------------------------ the apt log scan
\* A log is the sequence of its blank-line separated blocks; a block is
\*   upgrade:  the block contains "Upgrade: "
\*   end_date: the date of its last "End-Date: " line, NoDate without one

\* What subprocess.getoutput(cmd) returns.  The argument is run as a shell
\* command.  "zcat /var/log/apt/history.log*gz" prints the rotated logs.
\* "/var/log/apt/history.log" is not a command: the shell answers with one
\* line of error text (the log is not executable), whatever the log holds.
ShellError == << [upgrade |-> FALSE, end_date |-> NoDate] >>

getoutput(cmd) ==
    IF cmd = "zcat /var/log/apt/history.log*gz"
    THEN (IF history_log_gz = << >> THEN ShellError ELSE history_log_gz)
    ELSE ShellError

RECURSIVE ScanEvents(_, _, _)
ScanEvents(logs, i, latest_upgrade_date) ==
    IF i > Len(logs) THEN latest_upgrade_date
    ELSE LET event == logs[i]
             end_date == event.end_date
         IN  IF ~event.upgrade
             THEN ScanEvents(logs, i + 1, latest_upgrade_date)
             ELSE IF end_date # NoDate
                     /\ (latest_upgrade_date = NoDate \/ end_date > latest_upgrade_date)
                  THEN ScanEvents(logs, i + 1, end_date)
                  ELSE ScanEvents(logs, i + 1, latest_upgrade_date)

_get_latest_upgrade_from_log(log_path) ==
    ScanEvents(getoutput(log_path), 1, NoDate)

get_latest_apt_upgrade ==
    LET latest_upgrade_date == _get_latest_upgrade_from_log("/var/log/apt/history.log")
    IN  IF latest_upgrade_date = NoDate
        THEN _get_latest_upgrade_from_log("zcat /var/log/apt/history.log*gz")
        ELSE latest_upgrade_date

\* --------------------------------------------------- UpdateTracker.notify
\* notification_needed after the threshold test (lines 426-435)
ThresholdReached(p) ==
    IF max_days[p] >= settings.max_days
    THEN TRUE
    ELSE get_days_since_date(oldest_since_date[p]) >= settings.max_age

\* the suppression block resets notification_needed (lines 437-458)
Suppressed(p) ==
    IF test_mode[p] THEN FALSE
    ELSE LET last_install_age == get_days_since_timestamp(settings.install_last_run)
         IN  IF last_install_age <= settings.grace_period
             THEN TRUE
             ELSE LET last_apt_upgrade == get_latest_apt_upgrade
                  IN  IF last_apt_upgrade # NoDate
                      THEN get_days_since_date(last_apt_upgrade) <= settings.grace_period
                      ELSE FALSE

\* (mutation of notify: the rate limit is one day short)
notify_ShortLimit(p) ==
    IF settings.disable_notifications THEN FALSE
    ELSE IF get_days_since_date(tracked_updates[p].notified) < settings.days_between - 1
         THEN FALSE
         ELSE ThresholdReached(p) /\ ~Suppressed(p)

\* the value notify() returns
notify(p) ==
    IF settings.disable_notifications THEN FALSE
    ELSE IF get_days_since_date(tracked_updates[p].notified) < settings.days_between
         THEN FALSE
         ELSE ThresholdReached(p) /\ ~Suppressed(p)

\* (mutation of notified_after: the stamp is set whatever notify() returns)
notified_after_Always(p) == today[p]

\* self.tracked_updates["notified"] when notify() returns (lines 460-463)
notified_after(p) ==
    IF notify(p) THEN today[p] ELSE tracked_updates[p].notified

\* notify() is asked once per invocation
Notify(p) ==
    /\ UNCHANGED other_than_tracker
    /\ pc[p] = "run"
    /\ notify_ret[p] = "none"
    /\ notify_ret' = [notify_ret EXCEPT ![p] = IF notify(p) THEN "True" ELSE "False"]
    /\ tracked_updates' = [tracked_updates EXCEPT ![p].notified = notified_after(p)]
    /\ last_true' = IF notify(p) /\ ~test_mode[p]
                    THEN [at |-> now, run |-> today[p]] ELSE last_true
    /\ UNCHANGED <<now, file, env, pc, test_mode, today, security_only,
                   refreshed_update_names, max_days, oldest_since_date, active,
                   loaded, source, dropped, persisted>>

\* --------------------------------------------------- UpdateTracker.record
\* (mutation of Pruned: every record is kept)
Pruned_KeepAll(d, names, t) ==
    [d EXCEPT !.checked = t]

\* the dict comprehension of line 467 and the stamp of line 472
Pruned(d, names, t) ==
    [d EXCEPT
        !.updates = [n \in {m \in DOMAIN d.updates : m \in Range(names)} |-> d.updates[n]],
        !.checked = t]

\* record() up to open(self.path, "w"), which truncates the file
RecordOpen(p) ==
    /\ UNCHANGED other_than_tracker
    /\ pc[p] = "run"
    /\ IF ~tracked_updates[p].has_updates
       THEN \* self.tracked_updates["updates"] raises KeyError
            /\ pc' = [pc EXCEPT ![p] = "failed"]
            /\ last_true' = NoTrue
            /\ UNCHANGED <<tracked_updates, file>>
       ELSE /\ tracked_updates' = [tracked_updates EXCEPT
                  ![p] = Pruned(@, refreshed_update_names[p], today[p])]
            /\ file' = Empty
            /\ pc' = [pc EXCEPT ![p] = "writing"]
            /\ UNCHANGED last_true
    /\ UNCHANGED <<now, env, test_mode, today, security_only,
                   refreshed_update_names, max_days, oldest_since_date, active,
                   loaded, source, notify_ret, dropped, persisted>>

\* json.dump wrote the whole document and the with block closed the file
RecordDump(p) ==
    /\ UNCHANGED other_than_tracker
    /\ pc[p] = "writing"
    /\ file' = Json(tracked_updates[p])
    /\ pc' = [pc EXCEPT ![p] = "recorded"]
    /\ dropped' = DOMAIN loaded[p].updates \ DOMAIN tracked_updates[p].updates
    /\ persisted' = [checked |-> tracked_updates[p].checked,
                     notified |-> tracked_updates[p].notified]
    /\ UNCHANGED <<now, env, test_mode, today, security_only, tracked_updates,
                   refreshed_update_names, max_days, oldest_since_date, active,
                   loaded, source, notify_ret, last_true>>

\* json.dump is cut short (a write error such as a full disk, or the process
\* is killed): what reached the disk is nothing, or a prefix of the document
RecordFail(p, written) ==
    /\ UNCHANGED other_than_tracker
    /\ pc[p] = "writing"
    /\ file' = written
    /\ pc' = [pc EXCEPT ![p] = "failed"]
    /\ last_true' = NoTrue
    /\ dropped' = {}
    /\ UNCHANGED persisted
    /\ UNCHANGED <<now, env, test_mode, today, security_only, tracked_updates,
                   refreshed_update_names, max_days, oldest_since_date, active,
                   loaded, source, notify_ret>>

\* ------------------------------------------------------------ environment
\* the invocation is over; its tracker object is gone
Exit(p) ==
    /\ UNCHANGED other_than_tracker
    /\ pc[p] \in {"recorded", "failed"}
    /\ pc' = [pc EXCEPT ![p] = "idle"]
    /\ test_mode' = [test_mode EXCEPT ![p] = FALSE]
    /\ today' = [today EXCEPT ![p] = 0]
    /\ security_only' = [security_only EXCEPT ![p] = FALSE]
    /\ tracked_updates' = [tracked_updates EXCEPT ![p] = NoDoc]
    /\ refreshed_update_names' = [refreshed_update_names EXCEPT ![p] = << >>]
    /\ max_days' = [max_days EXCEPT ![p] = 0]
    /\ oldest_since_date' = [oldest_since_date EXCEPT ![p] = 0]
    /\ active' = [active EXCEPT ![p] = TRUE]
    /\ loaded' = [loaded EXCEPT ![p] = NoDoc]
    /\ source' = [source EXCEPT ![p] = Missing]
    /\ notify_ret' = [notify_ret EXCEPT ![p] = "none"]
    /\ UNCHANGED <<now, file, env, last_true, dropped, persisted>>

\* midnight passes
Tick ==
    /\ UNCHANGED other_than_tracker
    /\ now < MaxDay
    /\ now' = now + 1
    /\ UNCHANGED <<file, env, pc, test_mode, today, security_only,
                   tracked_updates, refreshed_update_names, max_days,
                   oldest_since_date, active, loaded, source, notify_ret,
                   last_true, dropped, persisted>>

\* ------------------------------------------------------------ start states
Rec(ty, s, d) == [type |-> ty, since |-> s, days |-> d]
OneUpdate(n, r) == [m \in {n} |-> r]
TwoUpdates(ra, rb) == [m \in {"a", "b"} |-> IF m = "a" THEN ra ELSE rb]

\* updates.json as earlier invocations (or an older release, or a restored
\* backup, or a clock that was set back since) may have left it
JsonSeeds ==
    { Doc(1, 0, 0, TRUE, OneUpdate("a", Rec("security", 0, 1))),
      Doc(1, 0, 0, TRUE, TwoUpdates(Rec("package", 0, 1), Rec("security", 0, 1))),
      Doc(0, 0, 0, TRUE, OneUpdate("a", Rec("security", 0, 1))),
      Doc(1, MaxDay, 0, TRUE, OneUpdate("a", Rec("security", 0, 1))),
      Doc(1, 0, MaxDay, TRUE, OneUpdate("b", Rec("package", 0, 1))),
      Doc(1, 0, 0, FALSE, NoUpdates) }

FileSeeds == {Missing, Partial} \cup {Json(d) : d \in JsonSeeds}

\* the fixtures of /usr/share/linuxmint/mintupdate/tests
TestFixtures ==
    { Json(Doc(1, 0, 0, TRUE, OneUpdate("a", Rec("security", 0, 2)))) }

Settings(dis, so, between, md, ma, grace, last) ==
    [disable_notifications |-> dis, security_only |-> so, days_between |-> between,
     max_days |-> md, max_age |-> ma, grace_period |-> grace, install_last_run |-> last]

Event(u, e) == [upgrade |-> u, end_date |-> e]

TypeOK ==
    /\ now \in Dates
    /\ file.kind \in {"missing", "empty", "partial", "json"}
    /\ \A p \in Procs :
          /\ pc[p] \in {"idle", "run", "writing", "recorded", "failed"}
          /\ notify_ret[p] \in {"none", "True", "False"}
          /\ today[p] \in Dates
          /\ Len(refreshed_update_names[p]) <= MaxCalls

InitProc ==
    /\ pc = [p \in Procs |-> "idle"]
    /\ test_mode = [p \in Procs |-> FALSE]
    /\ today = [p \in Procs |-> 0]
    /\ security_only = [p \in Procs |-> FALSE]
    /\ tracked_updates = [p \in Procs |-> NoDoc]
    /\ refreshed_update_names = [p \in Procs |-> << >>]
    /\ max_days = [p \in Procs |-> 0]
    /\ oldest_since_date = [p \in Procs |-> 0]
    /\ active = [p \in Procs |-> TRUE]
    /\ loaded = [p \in Procs |-> NoDoc]
    /\ source = [p \in Procs |-> Missing]
    /\ notify_ret = [p \in Procs |-> "none"]
    /\ last_true = NoTrue
    /\ dropped = {}
    /\ persisted = NothingPersisted

Init ==
    /\ now = 0
    /\ file \in FileSeeds
    /\ settings \in { Settings(FALSE, so, 1, 2, 2, 1, 0) : so \in BOOLEAN }
    /\ history_log = << >>
    /\ history_log_gz = << >>
    /\ InitProc
    /\ InitUpdate
    /\ InitFlatpak
    /\ InitKernel
    /\ InitCli
    /\ InitUpdater
    /\ InitAutomatic

\* the type the scan finds for the pending update of each software
TypeOf(name) == IF name = "a" THEN "security" ELSE "package"

Invocation(p) ==
    \/ \E tm \in BOOLEAN, fixture \in TestFixtures : Construct(p, tm, fixture)
    \/ \E name \in Names : Update(p, name, TypeOf(name))
    \/ Notify(p)
    \/ RecordOpen(p)
    \/ RecordDump(p)
    \/ \E written \in {Empty, Partial} : RecordFail(p, written)
    \/ Exit(p)

Next ==
    \/ Invocation(1)
    \/ Tick

Spec == Init /\ [][Next]_vars

\* ------------------------------------- the decision of notify(), any setup
\* The tracker is built from any start file on any day, under any of the
\* settings and apt logs below, and asked; nothing is written back.
SettingsSeeds ==
    { Settings(dis, so, between, 2, 2, 1, last) :
        dis \in BOOLEAN, so \in BOOLEAN, between \in {1, 2},
        last \in {0, 3600, 86400 + 3600} }

LogSeeds ==
    { << >>,
      << Event(TRUE, 1) >>,
      << Event(TRUE, MaxDay), Event(TRUE, 0) >> }

GzSeeds ==
    { << >>,
      << Event(TRUE, 0), Event(FALSE, MaxDay) >>,
      << Event(TRUE, NoDate), Event(TRUE, 0), Event(TRUE, 1) >> }

InitNotify ==
    /\ now \in Dates
    /\ file \in FileSeeds
    /\ settings \in SettingsSeeds
    /\ history_log \in LogSeeds
    /\ history_log_gz \in GzSeeds
    /\ InitProc
    /\ InitUpdate
    /\ InitFlatpak
    /\ InitKernel
    /\ InitCli
    /\ InitUpdater
    /\ InitAutomatic

NextNotify ==
    \/ \E tm \in BOOLEAN, fixture \in TestFixtures : Construct(1, tm, fixture)
    \/ \E name \in Names : Update(1, name, TypeOf(name))
    \/ Notify(1)
    \/ Tick

SpecNotify == InitNotify /\ [][NextNotify]_vars

\* ------------------------------------------------- the aggregation of packages
\* One Update object is created from a package of the cache, other packages
\* are folded into it, it is printed and the record is parsed back.  No
\* tracker exists meanwhile.
InitAggregation ==
    /\ now = 0
    /\ file = Missing
    /\ settings = Settings(FALSE, FALSE, 1, 2, 2, 1, 0)
    /\ history_log = << >>
    /\ history_log_gz = << >>
    /\ InitProc
    /\ InitUpdate
    /\ InitFlatpak
    /\ InitKernel
    /\ InitCli
    /\ InitUpdater
    /\ InitAutomatic

NextAggregation ==
    \/ \E package \in Cache, source_name \in Aliases :
          UpdateCreate(package, source_name)
    \/ \E pkg \in Cache : AddPackage(pkg)
    \/ \E order \in Orders(upd.source_packages) : Serialize(order)
    \/ Parse

SpecAggregation == InitAggregation /\ [][NextAggregation]_vars

\* --------------------------------------------- the classification of updates
\* One Update object is created from any package under any origins and alias,
\* printed and parsed back; nothing is folded into it.
NextClassification ==
    \/ \E package \in FirstPackages, source_name \in Aliases :
          UpdateCreate(package, source_name)
    \/ \E order \in Orders(upd.source_packages) : Serialize(order)
    \/ Parse

SpecClassification == InitAggregation /\ [][NextClassification]_vars

\* ------------------------------------------------ two invocations at once
\* Nothing in the class serialises invocations: there is no lock file and no
\* exclusive open.  Two processes (the refresh of the update manager and a
\* second instance, or two sessions of one user) each run the cycle once on
\* the same updates.json, their steps interleaved in any order.
InitConcurrent ==
    /\ now = 1
    /\ file = Json(Doc(1, 0, 0, TRUE, OneUpdate("a", Rec("security", 0, 1))))
    /\ settings = Settings(FALSE, FALSE, 1, 2, 2, 1, 0)
    /\ history_log = << >>
    /\ history_log_gz = << >>
    /\ InitProc
    /\ InitUpdate
    /\ InitFlatpak
    /\ InitKernel
    /\ InitCli
    /\ InitUpdater
    /\ InitAutomatic

NextConcurrent ==
    \E p \in Procs :
        \/ \E fixture \in TestFixtures : Construct(p, FALSE, fixture)
        \/ \E name \in Names : Update(p, name, TypeOf(name))
        \/ Notify(p)
        \/ RecordOpen(p)
        \/ RecordDump(p)

SpecConcurrent == InitConcurrent /\ [][NextConcurrent]_vars

\* ------------------------------------------------ the flatpak fetch task
\* The worker has fetched a transaction; it sorts and processes its
\* operations, sends the document, and the updater reads it.  Nothing else
\* runs.
InitWorker ==
    /\ now = 0
    /\ file = Missing
    /\ settings = Settings(FALSE, FALSE, 1, 2, 2, 1, 0)
    /\ history_log = << >>
    /\ history_log_gz = << >>
    /\ InitProc
    /\ InitUpdate
    /\ worker = "fetched"
    /\ ops \in Transactions
    /\ updates = << >>
    /\ discovered = << >>
    /\ sent = << >>
    /\ received = << >>
    /\ InitKernel
    /\ InitCli
    /\ InitUpdater
    /\ InitAutomatic

NextWorker ==
    \/ ProcessFetchTask
    \/ ProcessUpdateOperation
    \/ ProcessInstallOperation
    \/ SendToUpdater
    \/ FromJson

SpecWorker == InitWorker /\ [][NextWorker]_vars

\* ------------------------------------------------- two kernel versions
\* Two KernelVersion objects are made of any two version strings.
NextKernel == \E version \in KernelVersions : KernelVersionCreate(version)

SpecKernel == InitAggregation /\ [][NextKernel]_vars

\* ---------------------------------------------------- one run of the CLI
\* mintupdate-cli is run once with any command line, findings and blacklist.
InitMain ==
    /\ now = 0
    /\ file = Missing
    /\ settings = Settings(FALSE, FALSE, 1, 2, 2, 1, 0)
    /\ history_log = << >>
    /\ history_log_gz = << >>
    /\ InitProc
    /\ InitUpdate
    /\ InitFlatpak
    /\ InitKernel
    /\ args \in CommandLines
    /\ check \in Findings
    /\ blacklist_file \in BlacklistFiles
    /\ result = NotRun
    /\ InitUpdater
    /\ InitAutomatic

NextMain == Main

SpecMain == InitMain /\ [][NextMain]_vars


\* ---------------------------------------------- updates of every type
\* One tracker is built and fed updates of any type, in and out of
\* security-only mode, and asked.
AllTypes == {"security", "kernel", "package", "unstable"}

InitSecurityOnly ==
    /\ now \in Dates
    /\ file \in {Missing, Json(Doc(1, 0, 0, TRUE, TwoUpdates(Rec("package", 0, 1), Rec("security", 0, 1))))}
    /\ settings \in { Settings(FALSE, so, 1, 2, 2, 1, 0) : so \in BOOLEAN }
    /\ history_log = << >>
    /\ history_log_gz = << >>
    /\ InitProc
    /\ InitUpdate
    /\ InitFlatpak
    /\ InitKernel
    /\ InitCli
    /\ InitUpdater
    /\ InitAutomatic

NextSecurityOnly ==
    \/ \E fixture \in TestFixtures : Construct(1, FALSE, fixture)
    \/ \E name \in Names, type \in AllTypes : Update(1, name, type)
    \/ Notify(1)
    \/ Tick

SpecSecurityOnly == InitSecurityOnly /\ [][NextSecurityOnly]_vars

\* ================================================================ claims
\* the file __init__ read carried a tracker state that was taken over
Loaded(p) == pc[p] # "idle" /\ LoadSucceeds(source[p], today[p])

\* no software was passed to update() twice in this invocation
OncePerSoftware(p) == \A n \in Names : Count(refreshed_update_names[p], n) <= 1

\* C1: within one run whose loaded state has checked < today, however many
\* update() calls name a software that already has a record, that record's
\* `days` ends at most 1 above the value it was loaded with.
C1_DaysGrowAtMostOncePerRun ==
    \A p \in Procs :
        Loaded(p) /\ ~test_mode[p] /\ source[p].doc.checked < today[p] =>
            \A n \in DOMAIN loaded[p].updates \cap DOMAIN tracked_updates[p].updates :
                tracked_updates[p].updates[n].days <= loaded[p].updates[n].days + 1

\* C2: over complete runs (load, update() once per software, record()) a
\* record's `days` grows by at most 1 per calendar day: the file a run leaves
\* holds, for every record that was already in the file it read, a count at
\* most 1 above the old one; the count is the old one when the file had
\* already been written by a record() of the same day; and it is above the
\* old one only for a software this run observed.
C2_DaysGrowOncePerDay ==
    \A p \in Procs :
        pc[p] = "recorded" /\ Loaded(p) /\ OncePerSoftware(p) /\ file.kind = "json" =>
            \A n \in DOMAIN source[p].doc.updates \cap DOMAIN file.doc.updates :
                LET before == source[p].doc.updates[n].days
                    after == file.doc.updates[n].days
                IN  /\ after <= before + 1
                    /\ source[p].doc.checked = today[p] => after = before
                    /\ after > before => n \in Range(refreshed_update_names[p])

\* a second run of day `today`, outside test mode, has written back a record
\* that had grown on an earlier run
C2_Witness ==
    \E p \in Procs :
        /\ pc[p] = "recorded" /\ Loaded(p) /\ OncePerSoftware(p) /\ ~test_mode[p]
        /\ file.kind = "json"
        /\ source[p].doc.checked = today[p]
        /\ \E n \in DOMAIN source[p].doc.updates \cap DOMAIN file.doc.updates :
              file.doc.updates[n].days >= 2

\* C3: record() keeps exactly the records whose name was passed to update()
\* in this run and drops all others; so a software whose record the latest
\* record() dropped, when a later run observes it again, gets a brand-new
\* record: days = 1 and since = the date of that later run.
C3_RecordKeepsObservedOnly ==
    \A p \in Procs :
        /\ pc[p] \in {"writing", "recorded"} =>
              DOMAIN tracked_updates[p].updates = Range(refreshed_update_names[p])
        /\ pc[p] = "recorded" => file = Json(tracked_updates[p])
        /\ pc[p] \in {"run", "writing"} =>
              \A n \in dropped :
                  Count(refreshed_update_names[p], n) = 1 =>
                      /\ n \in DOMAIN tracked_updates[p].updates
                      /\ tracked_updates[p].updates[n].days = 1
                      /\ tracked_updates[p].updates[n].since = today[p]

\* a software that an earlier record() dropped is observed again, on a later
\* day and outside test mode
C3_Witness ==
    \E p \in Procs, n \in dropped :
        /\ pc[p] = "run" /\ ~test_mode[p]
        /\ Count(refreshed_update_names[p], n) = 1
        /\ today[p] > 0

\* C4: the file the constructor finds is missing, is not valid JSON, has
\* version < 1, or has checked or notified after today
Unusable(f, t) ==
    \/ f.kind = "missing"
    \/ f.kind \in {"empty", "partial"}
    \/ f.kind = "json" /\ f.doc.version < 1
    \/ f.kind = "json" /\ f.doc.checked > t
    \/ f.kind = "json" /\ f.doc.notified > t

\* C4: constructed on an unusable file, the tracker takes nothing from it:
\* its state is {updates: {}, version: 1, checked: today, notified: today};
\* no error reaches the caller: the constructor hands over that state, and
\* the only failure the run can still meet is the write of record().
C4_UnusableFileStartsFresh ==
    \A p \in Procs :
        pc[p] # "idle" /\ Unusable(source[p], today[p]) =>
            /\ loaded[p] = Doc(1, today[p], today[p], TRUE, NoUpdates)
            /\ (pc[p] = "run" /\ refreshed_update_names[p] = << >>
                    /\ notify_ret[p] = "none") => tracked_updates[p] = loaded[p]
            /\ pc[p] = "failed" => file.kind \in {"empty", "partial"}

\* the constructor has just run on a well-formed file dated in the future
C4_Witness ==
    \E p \in Procs :
        /\ pc[p] = "run" /\ refreshed_update_names[p] = << >>
        /\ source[p].kind = "json" /\ source[p].doc.version >= 1
        /\ source[p].doc.notified > today[p]
        /\ DOMAIN source[p].doc.updates # {}

\* C5: when the loaded state has checked == today the tracker is read-only
\* for the rest of the run: active is False, and update(), notify() and
\* record() leave the set of records, every record's days and since, and
\* the notified date as they were loaded.
C5_SameDayRunIsReadOnly ==
    \A p \in Procs :
        Loaded(p) /\ ~test_mode[p] /\ source[p].doc.checked = today[p] =>
            /\ ~active[p]
            /\ DOMAIN tracked_updates[p].updates = DOMAIN loaded[p].updates
            /\ \A n \in DOMAIN tracked_updates[p].updates \cap DOMAIN loaded[p].updates :
                  /\ tracked_updates[p].updates[n].days = loaded[p].updates[n].days
                  /\ tracked_updates[p].updates[n].since = loaded[p].updates[n].since
            /\ tracked_updates[p].notified = loaded[p].notified

\* ---------------------------------------------------- notify(): C6 - C9
\* what the claims call the inputs of the decision
NotifiedAge(p) == now - tracked_updates[p].notified
OldestAge(p) == now - oldest_since_date[p]

\* the End-Dates of the Upgrade blocks of a log, and the latest of a set
UpgradeEndDates(log) ==
    {log[i].end_date : i \in {j \in DOMAIN log : log[j].upgrade /\ log[j].end_date # NoDate}}

Latest(S) == IF S = {} THEN NoDate ELSE CHOOSE d \in S : \A e \in S : e <= d

\* the latest upgrade the apt history shows, plain or rotated
AptLatestUpgrade ==
    Latest(UpgradeEndDates(history_log) \cup UpgradeEndDates(history_log_gz))

ManualRunRecent ==
    /\ settings.install_last_run # 0
    /\ now - (settings.install_last_run \div 86400) <= settings.grace_period

AptUpgradeRecent ==
    AptLatestUpgrade # NoDate /\ now - AptLatestUpgrade <= settings.grace_period

\* the decision of steps 1-3 of notify(), suppression left aside
Due(p) ==
    /\ ~settings.disable_notifications
    /\ NotifiedAge(p) >= settings.days_between
    /\ (max_days[p] >= settings.max_days \/ OldestAge(p) >= settings.max_age)

\* C6: notify() returns True exactly when notifications are not disabled,
\* days since `notified` >= tracker-days-between-notifications, max_days >=
\* tracker-max-days or days since oldest_since_date >= tracker-max-age, and
\* no suppression applies (outside test mode: a manual run or an apt upgrade
\* within the grace period).
C6_NotifyExactlyWhenDue ==
    [][\A p \in Procs :
          Notify(p) =>
              ((notify_ret'[p] = "True") <=>
                  (Due(p) /\ ~(~test_mode[p] /\ (ManualRunRecent \/ AptUpgradeRecent))))]_vars

\* C8: outside test mode a manual run within the grace period, or a latest
\* apt upgrade End-Date within the grace period, makes notify() return False
\* even when a threshold is reached; in test mode neither is applied; an
\* install-last-run of zero does not suppress.
C8_Suppression ==
    [][\A p \in Procs :
          Notify(p) =>
              /\ (~test_mode[p] /\ (ManualRunRecent \/ AptUpgradeRecent)) =>
                    notify_ret'[p] = "False"
              /\ test_mode[p] => ((notify_ret'[p] = "True") <=> Due(p))
              /\ (settings.install_last_run = 0 /\ ~AptUpgradeRecent) =>
                    ((notify_ret'[p] = "True") <=> Due(p))]_vars

\* The decision of notify() relative to the date its own scan returned: True
\* exactly when due and, outside test mode, neither the manual run nor the
\* scanned upgrade is within the grace period.  The scan returns the latest
\* End-Date of the rotated logs only.
ScannedUpgradeRecent ==
    LET latest == get_latest_apt_upgrade
    IN  latest # NoDate /\ now - latest <= settings.grace_period

NotifyDecisionGivenScan ==
    [][\A p \in Procs :
          Notify(p) =>
              ((notify_ret'[p] = "True") <=>
                  (Due(p) /\ ~(~test_mode[p] /\ (ManualRunRecent \/ ScannedUpgradeRecent))))]_vars

\* C7 (as claimed): whenever days since `notified` < tracker-days-between-
\* notifications notify() returns False whatever max_days and the age of
\* oldest_since_date are; hence two True results are at least that many days
\* apart (taken over runs outside test mode, the earlier of which wrote its
\* stamp with record()).
C7_TrueResultsApart ==
    [][\A p \in Procs :
          Notify(p) =>
              /\ NotifiedAge(p) < settings.days_between => notify_ret'[p] = "False"
              /\ (notify_ret'[p] = "True" /\ ~test_mode[p] /\ last_true.at # NoDate) =>
                    now - last_true.at >= settings.days_between]_vars

\* C7 (amended): the rate limit as claimed; and a True result comes at least
\* that many days after the START date of the run that returned the previous
\* True: the stamp record() writes is the date the run began on, while the
\* age is counted from the current date.
C7_RateLimit ==
    [][\A p \in Procs :
          Notify(p) =>
              /\ NotifiedAge(p) < settings.days_between => notify_ret'[p] = "False"
              /\ (notify_ret'[p] = "True" /\ ~test_mode[p] /\ last_true.run # NoDate) =>
                    now - last_true.run >= settings.days_between]_vars

\* notify() returns True a second time, outside test mode, after a run that
\* returned True and recorded it
C7_Witness ==
    \E p \in Procs :
        /\ pc[p] = "run" /\ ~test_mode[p] /\ notify_ret[p] = "True"
        /\ last_true.run = today[p]
        /\ source[p].kind = "json" /\ source[p].doc.notified < today[p]
        /\ source[p].doc.notified > 0

\* the steps of record(), and the constructor's copy of a test fixture
RecordStep(p) ==
    pc[p] \in {"run", "writing"} /\ pc'[p] \in {"writing", "recorded", "failed"}
        /\ pc'[p] # pc[p] /\ refreshed_update_names'[p] = refreshed_update_names[p]

FixtureCopy(p) == pc[p] = "idle" /\ pc'[p] = "run" /\ test_mode'[p]

\* C9: notify() sets the in-memory `notified` to today if and only if it
\* returns True and leaves it alone when it returns False; it changes no
\* record and not `checked`; and it does not write the file: once a tracker
\* is constructed (the constructor may first copy a test fixture over the
\* file), the file on disk changes only in record().
C9_NotifyStampsOnlyOnTrue ==
    [][/\ \A p \in Procs :
             Notify(p) =>
                 /\ notify_ret'[p] = "True" => tracked_updates'[p].notified = today[p]
                 /\ notify_ret'[p] = "False" =>
                       tracked_updates'[p].notified = tracked_updates[p].notified
                 /\ tracked_updates'[p].updates = tracked_updates[p].updates
                 /\ tracked_updates'[p].checked = tracked_updates[p].checked
                 /\ file' = file
       /\ file' # file => \E p \in Procs : RecordStep(p) \/ FixtureCopy(p)]_vars

\* notify() has returned True and stamped a state whose stamp was older,
\* and the file still holds what was loaded
C9_Witness ==
    \E p \in Procs :
        /\ pc[p] = "run" /\ notify_ret[p] = "True" /\ ~test_mode[p]
        /\ tracked_updates[p].notified = today[p]
        /\ loaded[p].notified < today[p]
        /\ file = source[p] /\ file.kind = "json" /\ file.doc.notified < today[p]

\* C10: record() writes atomically: at every point during and after the
\* call, a failure part-way included, the file holds the complete previous
\* state or the complete new state.
C10_RecordIsAtomic ==
    \A p \in Procs :
        pc[p] # "idle" /\ ~test_mode[p] =>
            file = source[p] \/ file = Json(tracked_updates[p])

\* ------------------------------------------------- concurrency: C11
\* two invocations whose cycles overlapped: both loaded the same file
\* content, so neither load came after the other's record()
Overlapped(p, q) ==
    /\ p # q
    /\ pc[p] = "recorded" /\ pc[q] = "recorded"
    /\ source[p] = source[q]

\* at no time are two invocations between their load and the end of their
\* record()
CyclesNeverInterleave ==
    Cardinality({p \in Procs : pc[p] \in {"run", "writing"}}) <= 1

\* C11: the cycle of one invocation is never interleaved with that of
\* another on the same updates.json: when two invocations have run
\* concurrently, the file holds every record, every days increment and the
\* notified stamp that either of them made.
C11_NothingLost ==
    \A p, q \in Procs :
        Overlapped(p, q) =>
            /\ file.kind = "json"
            /\ file.doc.notified >= tracked_updates[p].notified
            /\ \A n \in DOMAIN tracked_updates[p].updates :
                  /\ n \in DOMAIN file.doc.updates
                  /\ file.doc.updates[n].days >= tracked_updates[p].updates[n].days

\* ---------------------------------------------- persisted dates: C12
\* C12: with a clock that does not go back, the `checked` and `notified`
\* dates a record() writes are not earlier than those the previous record()
\* wrote, and not later than the date of the run that writes them.
C12_PersistedDatesMonotone ==
    [][\A p \in Procs :
          RecordDump(p) =>
              /\ file'.doc.checked <= today[p]
              /\ file'.doc.notified <= today[p]
              /\ persisted.checked # NoDate =>
                    /\ file'.doc.checked >= persisted.checked
                    /\ file'.doc.notified >= persisted.notified]_vars

\* a run of a later day has recorded, outside test mode, over the file an
\* earlier record() left, and moved both dates forward
C12_Witness ==
    \E p \in Procs :
        /\ pc[p] = "recorded" /\ ~test_mode[p] /\ Loaded(p)
        /\ source[p].doc.checked = 1 /\ source[p].doc.notified = 1
        /\ file.kind = "json"
        /\ persisted = [checked |-> today[p], notified |-> today[p]]
        /\ today[p] > 1

\* ------------------------------------------------ Update: C13 - C20
Built == packages # << >>

\* the update is a real one: the candidate is not the installed version
RealUpdate == Built /\ packages[1].version # packages[1].installed

\* C13: for an Update built from a package and extended by add_package
\* calls, main_package_name is always an element of package_names.
C13_MainPackageIsListed ==
    Built => upd.main_package_name \in Range(upd.package_names)

\* a merged package has replaced the first one as main package
C13_Witness ==
    /\ Len(packages) >= 2
    /\ upd.main_package_name # packages[1].name
    /\ upd.main_package_name = packages[Len(packages)].name

\* C14: type, origin, site and archive are those the constructor derived
\* from the first package, whatever packages add_package merged since.
C14_TypeFixedAtCreation ==
    Built =>
        LET created == Update__init__(packages[1], alias)
        IN  /\ upd.type = created.type
            /\ upd.origin = created.origin
            /\ upd.site = created.site
            /\ upd.archive = created.archive

\* a kernel package from a security origin was merged into an update of
\* type package
C14_Witness ==
    /\ Len(packages) >= 2
    /\ upd.type = Str("package")
    /\ \E i \in 2..Len(packages) :
          /\ packages[i].section = Str("kernel")
          /\ packages[i].origins = <<UbuntuSecurity>>

\* C15: at creation, a package in section kernel, or named linux-headers...,
\* or of real source linux, linux-kernel, linux-signed or linux-meta, gives
\* type kernel, also when an origin matched the security or unstable rule.
C15_KernelTakesPrecedence ==
    RealUpdate =>
        LET package == packages[1]
        IN  (\/ package.section = Str("kernel")
             \/ package.name[1] = "linux-headers"
             \/ package.source_name \in {Str("linux"), Str("linux-kernel"),
                                         Str("linux-signed"), Str("linux-meta")})
                => upd.type = Str("kernel")

\* linux-headers-5.15.0-generic, section admin, offered by the Ubuntu
\* security archive, not installed yet
C15_Witness ==
    /\ Len(packages) = 1
    /\ packages[1].name = <<"linux-headers", "-5.15.0-generic">>
    /\ packages[1].section = Str("admin")
    /\ packages[1].origins = <<UbuntuSecurity>>
    /\ packages[1].installed = None
    /\ upd.type = Str("kernel")

\* C16: a non-kernel update whose source name is firefox, thunderbird or
\* chromium is of type security, whatever its origins (none included) and
\* whether or not an alias was passed.
C16_BrowsersAreSecurity ==
    RealUpdate =>
        LET package == packages[1]
            kernel == \/ package.section = Str("kernel")
                      \/ package.name[1] = "linux-headers"
                      \/ package.source_name \in {Str("linux"), Str("linux-kernel"),
                                                  Str("linux-signed"), Str("linux-meta")}
        IN  (~kernel /\ upd.source_name \in {Str("firefox"), Str("thunderbird"),
                                           Str("chromium")})
                => upd.type = Str("security")

RECURSIVE TotalSize(_)
TotalSize(pkgs) ==
    IF pkgs = << >> THEN 0 ELSE Head(pkgs).size + TotalSize(Tail(pkgs))

\* C17: after creation from P1 and add_package of P2..Pn, size is the sum
\* of the candidate sizes, package_names lists the n names in arrival
\* order, and source_packages is the set of their source=version strings.
C17_SizeNamesSources ==
    Built =>
        /\ upd.size = TotalSize(packages)
        /\ upd.package_names = [i \in 1..Len(packages) |-> packages[i].name]
        /\ upd.source_packages =
              {packages[i].source_name \o <<"=">> \o packages[i].source_version :
                  i \in 1..Len(packages)}

\* three packages of two source versions
C17_Witness ==
    /\ Len(packages) = 3
    /\ Cardinality(upd.source_packages) = 2
    /\ upd.size >= 4

\* the arrival orders of the packages folded in, and the main package an
\* order ends with
ArrivalOrders(pkgs) ==
    {[i \in 1..Len(pkgs) |-> pkgs[q[i]]] :
        q \in {r \in [1..Len(pkgs) -> 1..Len(pkgs)] : Range(r) = 1..Len(pkgs)}}

RECURSIVE Fold(_, _, _)
Fold(self, pkgs, i) ==
    IF i > Len(pkgs) THEN self ELSE Fold(add_package(self, pkgs[i]), pkgs, i + 1)

FinalMain(pkgs, source_name) ==
    Fold(Update__init__(pkgs[1], source_name), pkgs, 2).main_package_name

OneSource(pkgs) == \A i, j \in DOMAIN pkgs : pkgs[i].source_name = pkgs[j].source_name

\* C18 (as claimed): for packages sharing one source name, the final
\* main_package_name is the same for every arrival order.
C18_MainIndependentOfOrder ==
    (Built /\ OneSource(packages)) =>
        /\ upd.main_package_name = FinalMain(packages, alias)
        /\ \A order \in ArrivalOrders(packages) :
              FinalMain(order, alias) = upd.main_package_name

\* C18 (amended): for packages sharing one source name, one of which is
\* named as the update's source_name, the final main_package_name is that
\* package for every arrival order.
C18_SourceNamedPackageWins ==
    (Built /\ OneSource(packages)
        /\ \E i \in DOMAIN packages : packages[i].name = upd.source_name) =>
        /\ upd.main_package_name = FinalMain(packages, alias)
        /\ \A order \in ArrivalOrders(packages) :
              FinalMain(order, alias) = upd.source_name

\* three packages of source foo, the one named foo arriving second
C18_Witness ==
    /\ Len(packages) = 3 /\ OneSource(packages)
    /\ packages[2].name = Str("foo")
    /\ upd.source_name = Str("foo")
    /\ upd.main_package_name = Str("foo")

\* the descriptions are those of the package named main_package_name
DescribedByMain(self, pkgs) ==
    \E i \in DOMAIN pkgs :
        /\ pkgs[i].name = self.main_package_name
        /\ self.short_description = pkgs[i].raw_description
        /\ self.description = pkgs[i].description

\* C19: after creation and after every add_package, short_description and
\* description are those of the package named main_package_name; an
\* add_package overwrites them when it replaces the main package and
\* leaves them alone when it does not.
C19_DescriptionsFollowMain ==
    [][packages' # packages =>
          /\ DescribedByMain(upd', packages')
          /\ (packages # << >> /\ upd'.main_package_name = upd.main_package_name) =>
                /\ upd'.short_description = upd.short_description
                /\ upd'.description = upd.description
          /\ (packages # << >> /\ upd'.main_package_name # upd.main_package_name) =>
                /\ upd'.short_description = packages'[Len(packages')].raw_description
                /\ upd'.description = packages'[Len(packages')].description]_vars

\* the main package was replaced by the second package and kept when the
\* third arrived
C19_Witness ==
    /\ Len(packages) = 3
    /\ upd.main_package_name = packages[2].name
    /\ upd.description = packages[2].description
    /\ upd.description # packages[1].description

\* C20: parsing the record serialize() printed yields an Update equal to
\* the original in all 15 fields, the sentinel being part of none.
C20_WireRoundTrip ==
    parsed.status # "none" =>
        /\ parsed.status = "ok"
        /\ parsed.values.display_name = upd.display_name
        /\ parsed.values.source_name = upd.source_name
        /\ parsed.values.real_source_name = upd.real_source_name
        /\ Range(parsed.values.source_packages) = upd.source_packages
        /\ parsed.values.main_package_name = upd.main_package_name
        /\ parsed.values.package_names = upd.package_names
        /\ parsed.values.new_version = upd.new_version
        /\ parsed.values.old_version = upd.old_version
        /\ parsed.values.size = upd.size
        /\ parsed.values.type = upd.type
        /\ parsed.values.origin = upd.origin
        /\ parsed.values.short_description = upd.short_description
        /\ parsed.values.description = upd.description
        /\ parsed.values.site = upd.site
        /\ parsed.values.archive = upd.archive
        /\ ~contains(parsed.values.archive, Sentinel)

\* the round trip of the updates whose description is plain or accented
\* text: it has no line break, no "&amp;" and no "###"
PlainText(s) == \A i \in DOMAIN s : s[i] \notin {LF, AmpEntity, Hashes}

WireRoundTripOfPlainText ==
    (parsed.status # "none" /\ PlainText(upd.description)) =>
        /\ parsed.status = "ok"
        /\ parsed.values.description = upd.description
        /\ parsed.values.short_description = upd.short_description
        /\ parsed.values.package_names = upd.package_names
        /\ Range(parsed.values.source_packages) = upd.source_packages
        /\ parsed.values.size = upd.size
        /\ parsed.values.archive = upd.archive

\* --------------------------------------------- the separator: C21
\* C21: "###" inside the short description or the description does not
\* collide with the field separator: the record still parses into 15 fields
\* and the fields around and after the text are at their positions.
C21_SeparatorInTextDoesNotCollide ==
    (parsed.status # "none"
        /\ (contains(upd.short_description, Hashes) \/ contains(upd.description, Hashes))) =>
        /\ parsed.status = "ok"
        /\ parsed.values.origin = upd.origin
        /\ parsed.values.site = upd.site
        /\ parsed.values.archive = upd.archive

\* ------------------------------------------- the flatpak hierarchy: C22..C26
RefOf(op) == RefParse(op.ref)

\* how often the ref of an operation is in the result, as an entry of
\* self.updates or as a child of one
RECURSIVE Occurrences(_, _)
Occurrences(list, ref) ==
    IF list = << >> THEN 0
    ELSE (IF Head(list).ref = ref THEN 1 ELSE 0)
         + Cardinality({k \in DOMAIN Head(list).sub_updates :
                           Head(list).sub_updates[k].ref = ref})
         + Occurrences(Tail(list), ref)

\* C22: every ref of an update or install operation the worker has processed
\* is in the result exactly once, as a top-level entry of self.updates or as
\* a child of exactly one top-level entry; none is dropped.
C22_EveryRefExactlyOnce ==
    \A i \in DOMAIN discovered : Occurrences(updates, RefOf(discovered[i])) = 1

\* (the part of C22 that the code keeps: no ref is in the result twice)
NoRefTwice ==
    \A i \in DOMAIN discovered : Occurrences(updates, RefOf(discovered[i])) <= 1

\* C23: a ref of kind app is never folded into the sub_updates of another
\* entry: it is a top-level entry even when the name of an entry discovered
\* before it is a prefix of its name.
C23_AppIsNeverFolded ==
    \A i \in DOMAIN updates : \A k \in DOMAIN updates[i].sub_updates :
        updates[i].sub_updates[k].flatpak_type # "app"

\* would the ref of `child` nest under the ref of `parent`: by the prefix of
\* its name or by the extensions the parent declares
NestsUnder(child, parent) ==
    /\ child # parent
    /\ ClaimedBy(FlatpakUpdate__init__(parent, RefOf(parent), NoRef, NoPkgInfo),
                 FlatpakUpdate__init__(child, RefOf(child), NoRef, NoPkgInfo))

\* C24: the operations are processed by ascending number of segments of the
\* ref name, the name deciding among equal numbers only, and so a ref that
\* would nest under another ref of the transaction is processed after it.
C24_ShallowNamesFirst ==
    /\ \A i, j \in DOMAIN discovered :
          i < j =>
            LET a == RefOf(discovered[i]).name
                b == RefOf(discovered[j]).name
            IN  \/ Segments(a) < Segments(b)
                \/ Segments(a) = Segments(b) /\ ~str_lt(b, a)
    /\ \A i, j \in DOMAIN discovered :
          NestsUnder(discovered[j], discovered[i]) /\ ~NestsUnder(discovered[i], discovered[j])
            => i < j

\* the download size of the operation an entry was made of
OwnSize(update) ==
    discovered[CHOOSE i \in DOMAIN discovered : RefOf(discovered[i]) = update.ref].download_size

RECURSIVE SumOfSizes(_)
SumOfSizes(list) ==
    IF list = << >> THEN 0 ELSE Head(list).size + SumOfSizes(Tail(list))

\* where an entry was discovered
DiscoveredAt(update) == CHOOSE i \in DOMAIN discovered : RefOf(discovered[i]) = update.ref

SameFlatpakUpdate(x, y) ==
    /\ x.class = "FlatpakUpdate" /\ y.class = "FlatpakUpdate"
    /\ x.flatpak_type = y.flatpak_type
    /\ x.ref_name = y.ref_name
    /\ x.name = y.name
    /\ x.origin = y.origin
    /\ x.old_version = y.old_version
    /\ x.new_version = y.new_version
    /\ x.size = y.size
    /\ x.summary = y.summary
    /\ x.description = y.description
    /\ x.real_source_name = y.real_source_name
    /\ x.source_packages = y.source_packages
    /\ x.package_names = y.package_names

\* C26: from_json(to_json(x)) equals x in the fields named, and in
\* sub_updates, whose members are FlatpakUpdate objects again that equal the
\* children of x.
C26_JsonRoundTrip ==
    worker = "received" =>
        /\ Len(received) = Len(updates)
        /\ \A i \in DOMAIN updates :
              /\ SameFlatpakUpdate(received[i], updates[i])
              /\ Len(received[i].sub_updates) = Len(updates[i].sub_updates)
              /\ \A k \in DOMAIN updates[i].sub_updates :
                    SameFlatpakUpdate(received[i].sub_updates[k], updates[i].sub_updates[k])

\* (the part of C26 that the code keeps: the fields of the top-level entries)
JsonRoundTripOfTopLevel ==
    worker = "received" =>
        /\ Len(received) = Len(updates)
        /\ \A i \in DOMAIN updates : SameFlatpakUpdate(received[i], updates[i])

\* --------------------------------------------- KernelVersion: C27, C28
BothCompared == compared[1] # NoKernel /\ compared[2] # NoKernel

\* C27: the version_id of a release is greater than the version_id of its
\* -rc1, whatever the number of numeric components.
C27_ReleaseAboveItsRc ==
    (BothCompared /\ compared[1].version \in Releases
        /\ compared[2].version = compared[1].version \o rc1) =>
        list_lt(compared[2].version_id, compared[1].version_id)

\* (the part of C27 that the code keeps: up to four numeric components)
ReleaseAboveItsRcUpTo4 ==
    (BothCompared /\ compared[1].version \in Releases
        /\ compared[2].version = compared[1].version \o rc1
        /\ Len(SelectSeq(split(replace_dash(compared[1].version), ".", EmptyStr), isnumeric)) <= 4) =>
        list_lt(compared[2].version_id, compared[1].version_id)

\* (major, minor, patch): the first three numeric components as numbers, 0
\* for one that is missing
Triple(version) ==
    LET numeric == SelectSeq(split(replace_dash(version), ".", EmptyStr), isnumeric)
    IN  [i \in 1..3 |-> IF i <= Len(numeric) THEN StrToInt(numeric[i]) ELSE 0]

TripleLess(a, b) ==
    \/ a[1] < b[1]
    \/ a[1] = b[1] /\ a[2] < b[2]
    \/ a[1] = b[1] /\ a[2] = b[2] /\ a[3] < b[3]

\* C28: with every numeric component below 1000, version_id orders two
\* versions as (major, minor, patch) orders them: the fields are zero-padded
\* to width 3, so 9 sorts below 10.
C28_KeyOrderIsNumericOrder ==
    BothCompared =>
        /\ TripleLess(Triple(compared[1].version), Triple(compared[2].version))
              => list_lt(compared[1].version_id, compared[2].version_id)
        /\ \A k \in 1..3 : Len(compared[1].version_id[k]) = field_length

\* 9.9.9 and 9.10.9
C28_Witness ==
    /\ compared[1].version = <<"9", ".", "9", ".", "9">>
    /\ compared[2] # NoKernel
    /\ compared[2].version = <<"9", ".", "1", "0", ".", "9">>
    /\ list_lt(compared[1].version_id, compared[2].version_id)

\* ------------------------------------------------- mintupdate-cli: C29
\* C29: with --only-kernel every update filter_updates returns is of type
\* kernel, with --only-security every one is of type security.
C29_OnlyTheTypeAsked ==
    result.status \in {"listed", "upgraded"} =>
        /\ args.only_kernel =>
              \A i \in DOMAIN result.updates : result.updates[i].type = "kernel"
        /\ args.only_security =>
              \A i \in DOMAIN result.updates : result.updates[i].type = "security"

\* --------------------------------------------- security-only mode: C30
\* the step is a call of update() that did not fail
UpdateCalled(p) ==
    /\ Len(refreshed_update_names'[p]) = Len(refreshed_update_names[p]) + 1
    /\ pc'[p] = "run"

\* C30: update() folds the record into max_days and oldest_since_date when
\* the type is security or kernel or security-only mode is off, and only
\* then: a package or unstable update in security-only mode leaves both as
\* they were, and with them what notify() returns.
C30_Step ==
    \A p \in Procs :
        UpdateCalled(p) =>
            LET name == refreshed_update_names'[p][Len(refreshed_update_names'[p])]
                r == tracked_updates'[p].updates[name]
            IN  IF r.type \in {"security", "kernel"} \/ ~security_only[p]
                THEN /\ max_days'[p] = Max(max_days[p], r.days)
                     /\ oldest_since_date'[p] = Min(oldest_since_date[p], r.since)
                ELSE /\ max_days'[p] = max_days[p]
                     /\ oldest_since_date'[p] = oldest_since_date[p]
                     /\ notify(p)' = notify(p)

C30_SecurityOnlyFolding == [][C30_Step]_vars

\* in security-only mode only package and unstable updates were fed, one of
\* them pending for two days; max_days is 0 and the oldest date is today
C30_Witness ==
    /\ pc[1] = "run"
    /\ security_only[1]
    /\ refreshed_update_names[1] # << >>
    /\ \A i \in DOMAIN refreshed_update_names[1] :
          tracked_updates[1].updates[refreshed_update_names[1][i]].type
              \in {"package", "unstable"}
    /\ \E n \in DOMAIN tracked_updates[1].updates :
          tracked_updates[1].updates[n].days >= 2
    /\ max_days[1] = 0
    /\ oldest_since_date[1] = today[1]


\* ---------------------------------------------------------------- C31, C32
\* add_package(pkg) was called on an update whose main package carries a
\* listed suffix the name of pkg does not carry, pkg not being named as
\* the source; guarded: the main package is not named as the source either
C31_Step(guarded) ==
    (packages # << >> /\ Len(packages') = Len(packages) + 1) =>
        LET pkg == packages'[Len(packages')]
        IN  (/\ pkg.name # upd.source_name
             /\ guarded => upd.main_package_name # upd.source_name
             /\ \E i \in DOMAIN Suffixes :
                    /\ endswith(upd.main_package_name, Suffixes[i])
                    /\ ~endswith(pkg.name, Suffixes[i]))
                => upd'.main_package_name = pkg.name

\* C31 (as claimed): whenever the incoming name differs from source_name
\* and the main package name ends with -dev, -dbg, -common, -core, -data,
\* -doc, :i386 or :amd64 while the incoming name does not end with that
\* suffix, add_package makes the incoming package the main package, also
\* when the main package is named as source_name.
C31_SuffixedMainIsReplaced == [][C31_Step(FALSE)]_vars

\* C31 (amended): the same replacement, for a main package that is not
\* named as source_name.
C31_SuffixedMainIsReplacedUnlessSourceNamed == [][C31_Step(TRUE)]_vars

\* libfoo-dev was the main package of an update of source foo and foo-doc,
\* merged second, has replaced it
C31_Witness ==
    /\ Len(packages) = 2
    /\ upd.source_name = Str("foo")
    /\ packages[1].name = <<"lib", "foo", "-dev">>
    /\ packages[2].name = <<"foo", "-doc">>
    /\ upd.main_package_name = <<"foo", "-doc">>

SecurityOrigin(origin) ==
    \/ origin.origin = Str("Ubuntu") /\ contains(origin.archive, "-security")
    \/ origin.origin = Str("Debian") /\ contains(origin.label, "-Security")

UnstableOrigin(origin) ==
    origin.origin = Str("linuxmint") /\ origin.component = Str("romeo")

NotAKernel ==
    /\ packages[1].section # Str("kernel")
    /\ packages[1].name[1] # "linux-headers"
    /\ packages[1].source_name \notin {Str("linux"), Str("linux-kernel"),
                                        Str("linux-signed"), Str("linux-meta")}

\* C32 (as claimed): a non-kernel package with one origin satisfying the
\* security rule and another satisfying the unstable rule is of type
\* security, in whichever order its origins are listed.
C32_SecurityBeforeUnstable ==
    (/\ RealUpdate /\ NotAKernel
     /\ \E i \in DOMAIN packages[1].origins : SecurityOrigin(packages[1].origins[i])
     /\ \E i \in DOMAIN packages[1].origins : UnstableOrigin(packages[1].origins[i]))
        => upd.type = Str("security")

\* C32 (amended): the type of a non-kernel package is decided by the first
\* listed origin that satisfies a rule: security when that origin satisfies
\* the security rule (or the source_name argument names a browser),
\* unstable when it is the romeo component of linuxmint.
C32_FirstMatchingOriginDecides ==
    (RealUpdate /\ NotAKernel) =>
        LET origins == packages[1].origins
            Secure(i) == SecurityOrigin(origins[i]) \/ alias \in Browsers
            Matches(i) == Secure(i) \/ UnstableOrigin(origins[i])
        IN  \A i \in DOMAIN origins :
                (Matches(i) /\ \A j \in 1..(i - 1) : ~Matches(j)) =>
                    upd.type = IF Secure(i) THEN Str("security") ELSE Str("unstable")

\* romeo is listed before the security archive: the update is unstable
C32_Witness ==
    /\ RealUpdate /\ NotAKernel
    /\ packages[1].origins = <<MintRomeo, UbuntuSecurity>>
    /\ alias = None
    /\ upd.type = Str("unstable")


\* ----------------------------------------------------------- C33, C34, C36
NameIsPrefix(parent, update) == str_startswith(update.ref_name, parent.ref_name)

VersionsAsClaimed(update) ==
    LET op == discovered[DiscoveredAt(update)]
        installed == op.operation_type = "update" /\ op.installed = "installed"
        old10 == IF installed THEN [n \in 1..10 |-> op.installed_ref.commit[n]] ELSE << >>
        new10 == [n \in 1..10 |-> op.commit[n]]
        old_v == IF installed THEN op.installed_ref.appdata_version ELSE << >>
        new_v == IF op.pkginfo # NoPkgInfo THEN op.pkginfo.version ELSE << >>
    IN  IF old_v # << >> /\ new_v # << >> /\ old_v # new_v
        THEN update.old_version = old_v /\ update.new_version = new_v
        ELSE IF old_v # << >> /\ new_v # << >>
        THEN /\ update.old_version = old_v \o <<" (">> \o old10 \o <<")">>
             /\ update.new_version = new_v \o <<" (">> \o new10 \o <<")">>
        ELSE update.old_version = old10 /\ update.new_version = new10

\* C34: commits are cut to their first 10 characters; when the installed
\* appdata version and the appstream version are both non-empty and differ
\* they are the old and new version, when they are equal each is followed
\* by its commit in parentheses, otherwise the versions are the old commit
\* (empty when nothing is installed) and the new commit.
C34_VersionStrings ==
    \A i \in DOMAIN updates :
        /\ VersionsAsClaimed(updates[i])
        /\ \A k \in DOMAIN updates[i].sub_updates :
              VersionsAsClaimed(updates[i].sub_updates[k])

\* org.appLink, 2.0 installed and 2.0 offered, commits of 12 characters
C34_Witness ==
    \E i \in DOMAIN updates :
        /\ updates[i].ref_name = <<"org", ".", "app", "Link">>
        /\ updates[i].old_version =
              <<"2.0", " (", "c6", "0", "1", "2", "3", "4", "5", "6", "7", "8", ")">>
        /\ updates[i].new_version =
              <<"2.0", " (", "c7", "0", "1", "2", "3", "4", "5", "6", "7", "8", ")">>

C35_MalformedStateStartsFresh ==
    \A p \in Procs :
        (pc[p] # "idle" /\ source[p].kind = "json" /\ ~source[p].doc.has_updates) =>
            /\ tracked_updates[p].has_updates
            /\ pc[p] # "failed"

\* the runs of C38: the clock never goes back, no test fixture replaces the
\* file, and a run passes a software to update() at most once
NextRuns ==
    \/ \E fixture \in TestFixtures : Construct(1, FALSE, fixture)
    \/ \E name \in Names \ Range(refreshed_update_names[1]) : Update(1, name, TypeOf(name))
    \/ Notify(1)
    \/ RecordOpen(1)
    \/ RecordDump(1)
    \/ \E written \in {Empty, Partial} : RecordFail(1, written)
    \/ Exit(1)
    \/ Tick

SpecRuns == Init /\ [][NextRuns]_vars

\* C38: over runs with non-decreasing dates that pass each software to
\* update() at most once and end with record(), every stored record has
\* days >= 1, since no later than the date of the run that stored it, and
\* days <= 1 + the number of calendar days from since to that date.
C38_StoredRecordsAreBounded ==
    (file.kind = "json" /\ file.doc.has_updates) =>
        \A n \in DOMAIN file.doc.updates :
            LET r == file.doc.updates[n]
            IN  /\ r.days >= 1
                /\ r.since <= file.doc.checked
                /\ r.days <= 1 + (file.doc.checked - r.since)

\* a record of day 0 has been stored again by a run of the last day, one
\* day counted for each day since
C38_Witness ==
    /\ pc[1] = "recorded"
    /\ file.kind = "json"
    /\ file.doc.checked = MaxDay
    /\ "a" \in DOMAIN file.doc.updates
    /\ file.doc.updates["a"].since = 0
    /\ file.doc.updates["a"].days = 1 + MaxDay


\* --------------------------------------------------------------------- C37
\* C37: for every version string, one without numeric component included,
\* KernelVersion(version) is constructed and has a version_id of at least 5
\* fields, the fields up to the fourth that no numeric component fills
\* being 000; series is its first three fields and shortseries its first
\* two.
C37_KernelVersionIsTotal ==
    \A slot \in DOMAIN compared :
        compared[slot] # NoKernel =>
            LET kernel_version == compared[slot]
                numeric == SelectSeq(split(replace_dash(kernel_version.version), ".", EmptyStr),
                                     isnumeric)
            IN  /\ Len(kernel_version.version_id) >= 5
                /\ \A i \in (Len(numeric) + 1)..4 :
                      kernel_version.version_id[i] = <<"0", "0", "0">>
                /\ kernel_version.series =
                      <<kernel_version.version_id[1], kernel_version.version_id[2],
                        kernel_version.version_id[3]>>
                /\ kernel_version.shortseries =
                      <<kernel_version.version_id[1], kernel_version.version_id[2]>>

\* KernelVersion("rc1"): no numeric component at all
C37_Witness ==
    /\ compared[1] # NoKernel
    /\ compared[1].version = <<"r", "c", "1">>
    /\ compared[1].version_id =
          << <<"0", "0", "0">>, <<"0", "0", "0">>, <<"0", "0", "0">>, <<"0", "0", "0">>,
             <<"0", "0", "0", "0", "0", "0", "0", "0", "r", "c", "1">> >>
    /\ compared[1].series = << <<"0", "0", "0">>, <<"0", "0", "0">>, <<"0", "0", "0">> >>


\* ------------------------------------------------ the updater and its worker
\* The updater has found updates (the refs of a transaction) and starts the
\* worker for them: prepare_start_updates(), then confirm_start(), as
\* __main__ of flatpakUpdater.py calls them.
InitHandshake ==
    /\ now = 0
    /\ file = Missing
    /\ settings = Settings(FALSE, FALSE, 1, 2, 2, 1, 0)
    /\ history_log = << >>
    /\ history_log_gz = << >>
    /\ InitProc
    /\ InitUpdate
    /\ InitFlatpak
    /\ InitKernel
    /\ InitCli
    /\ InitUpdater
    /\ InitAutomatic

NextHandshake ==
    \/ \E list \in Transactions \ {<< >>} : Popen(list)
    \/ StartTaskReady
    \/ StartUpdatesError
    \/ \E printed \in BOOLEAN : WorkerExits(printed)
    \/ PrepareStartUpdatesReturns
    \/ \E written \in {"BrokenPipeError", "end of file"}, answer \in {"yes", "no"} :
          ConfirmStart(written, answer)

SpecHandshake == InitHandshake /\ [][NextHandshake]_vars

\* C39: after prepare_start_updates() has read "ready" and returned, the
\* worker is still running and its pipes are usable, so that confirm_start()
\* can send "confirm" and return True on "yes"; only terminate_helper() ends
\* the worker.
C39_WorkerSurvivesPrepare ==
    /\ (call.prepare_start_updates = "returned" /\ call.confirm_start = "not called") =>
          /\ helper = "reading"
          /\ in_pipe.fd = "open" /\ out_pipe.fd = "open"
    /\ call.confirm_start = "False" => proc = "None"

\* --------------------------------------------------- the automatic upgrade
\* automatic_upgrades.py is started once, in any state of the files it looks
\* at: the options file may hold a comment, an empty line and an option.
InitAutomaticUpgrades ==
    /\ now = 0
    /\ file = Missing
    /\ settings = Settings(FALSE, FALSE, 1, 2, 2, 1, 0)
    /\ history_log = << >>
    /\ history_log_gz = << >>
    /\ InitProc
    /\ InitUpdate
    /\ InitFlatpak
    /\ InitKernel
    /\ InitCli
    /\ InitUpdater
    /\ enabled_flag \in BOOLEAN
    /\ POWER_CONNECT_FILE \in {NoFile, <<"<IOError>">>, <<"1", LF>>, <<"0", LF>>}
    /\ OPTIONS_FILE \in {NoFile, <<"<IOError>">>,
                         << <<"#", " ", "options", LF>>, <<LF>>,
                            <<" ", "--only-security", LF>> >>}
    /\ PKLA_TARGET \in {"absent", "symlink", "file"}
    /\ automatic = NotStarted

NextAutomaticUpgrades ==
    \/ \E symlinked \in BOOLEAN : AutomaticUpgradesBegin(symlinked)
    \/ \E ran \in {"returned", "CalledProcessError", "OSError", "UnicodeDecodeError"},
          returncode \in {1, 100} : RunUpgradeCommand(ran, returncode)
    \/ \E unlinked \in BOOLEAN : AutomaticUpgradesEnd(unlinked)

SpecAutomaticUpgrades == InitAutomaticUpgrades /\ [][NextAutomaticUpgrades]_vars

\* (the part of C40 that the code keeps) the upgrade command runs only with
\* the flag file present, the power connected or its file absent, and the
\* blocker in place
UpgradeOnlyWhenAllowed ==
    automatic.at = "upgrading" =>
        /\ enabled_flag
        /\ POWER_CONNECT_FILE \in {NoFile, <<"1", LF>>}
        /\ PKLA_TARGET = "symlink"

\* C40: the upgrade command runs only with the flag file present, the power
\* connected (or the power file absent) and the blocker symlink in place;
\* and whenever main() has reached the upgrade command, the symlink at
\* PKLA_TARGET is gone when main() returns or exits, whatever the outcome.
C40_BlockerIsGoneAtExit ==
    /\ UpgradeOnlyWhenAllowed
    /\ (automatic.at = "exited" /\ automatic.upgraded) => PKLA_TARGET # "symlink"

====
